---- MODULE Spec2Model ----
(***************************************************************************)
(* A model of the extension system of qtapp: the keyed Registry            *)
(* (qtapp/utils/registrable.py), the background Worker                     *)
(* (qtapp/utils/worker.py), the RegistrableLoader, the PluginService        *)
(* (qtapp/plugins/services.py), the manifest schema                        *)
(* (qtapp/plugins/schemas.py), the extension manager                       *)
(* (qtapp/plugins/models.py, widgets.py, settings.py) and the application  *)
(* shell that routes a Plugin's Registrables (qtapp/app.py).               *)
(*                                                                         *)
(* Python objects are records [cls, oid]: cls is the runtime type, oid the *)
(* identity of the object.  A dict is the sequence of its [key, val]       *)
(* entries in insertion order.  A Qt signal with direct connections is a   *)
(* call of every connected observer, in connection order, inside emit().   *)
(***************************************************************************)
EXTENDS Integers, Sequences, FiniteSets, TLC

VARIABLES
    registry,      \* BaseRegistry._registrables of one stand-alone registry
    lastCall,      \* the last add/remove call on it: argument, state before, outcome
    wpc,           \* per Worker: the position of its run() in the try statement
    wout,          \* per Worker: how the call of fn ended
    wlog,          \* per Worker: the notifications its observers have seen, in order
    loadIn,        \* the arguments of the last RegistrableLoader.load call
    loadOut,       \* what that call returned or raised
    manifests,     \* the repository files on disk, in the order handed to load
    enabledIds,    \* the persisted list of enabled module ids
    moduleList,    \* PluginService._moduleListModel.items
    pluginRegistry,\* PluginService._registry._registrables
    pluginAddedLog,\* the pluginAdded emissions so far (the Plugin each carried)
    addLog,        \* every call of the Plugin Registry's add so far, with its outcome
    loaderRuns,    \* the paths PluginService has run the Loader against so far
    loaded,        \* the instances the Loader has returned to PluginService so far
    ingested,      \* the module list as the last load left it before activating
    activations,   \* every run of addPluginsFromModule so far, with its outcome
    nextOid,       \* the identity the next created object gets
    svcCall,       \* the last call on the PluginService and how it ended
    connected,     \* whether BaseApplication.onPluginAdded observes pluginAdded
    slotErrors,    \* what the Qt binding does with an error raised in an observer
    dockRegistry,  \* DockService._registry._registrables
    settingRegistry,\* SettingService._registry._registrables
    routeLog,      \* every run of onPluginAdded so far: what it read, how it ended
    navBar,        \* the navigation entries BaseApplication.run has rendered
    appCall,       \* the last call made on the application shell itself
    mainWindow,    \* _MainWindow: the selection, the stack and the dock widgets
    storedPlugin,  \* the value stored under "application/selectedPlugin"
    pwCall         \* the last PasswordGenerator.generatePassword call

regVars == <<registry, lastCall>>
workerVars == <<wpc, wout, wlog>>
loaderVars == <<loadIn, loadOut>>
appVars == <<connected, slotErrors, dockRegistry, settingRegistry, routeLog,
             navBar, appCall>>
winVars == <<mainWindow, storedPlugin>>
pwVars == <<pwCall>>
svcVars == <<manifests, enabledIds, moduleList, pluginRegistry, pluginAddedLog,
             addLog, loaderRuns, loaded, ingested, activations, nextOid, svcCall,
             appVars, winVars, pwVars>>
vars == <<registry, lastCall, wpc, wout, wlog, loadIn, loadOut, manifests,
          enabledIds, moduleList, pluginRegistry, pluginAddedLog, addLog,
          loaderRuns, loaded, ingested, activations, nextOid, svcCall, connected,
          slotErrors,
          dockRegistry, settingRegistry, routeLog, navBar, appCall, mainWindow,
          storedPlugin, pwCall>>

----------------------------------------------------------------------------
(* Bounds of the model. *)

\* objects handed to the stand-alone registry
NumObjs == 3
\* longest list handed to add
MaxList == 3
\* longest list handed to remove
MaxRemoveList == 2
\* observers connected to each signal of the stand-alone registry
NumObservers == 2
\* Workers handed to the thread pool
NumWorkers == 3
\* names bound at the top level of a code unit handed to the Loader
MaxBindings == 2
\* repository files handed to PluginService.load
NumRepos == 2
\* manifest entries in all repository files together
MaxEntries == 3
\* calls made on one PluginService
MaxCalls == 2
\* calls made on the application shell and on the extension manager
MaxAppCalls == 2
\* the longest password asked for
MaxPwLength == 5
\* the most calls and events the window receives in one behaviour
MaxWindowCalls == 6

----------------------------------------------------------------------------
(* Python values. *)

\* Python's None, as an object and as an id (Registrable.id defaults to None)
None == [cls |-> "NoneType", oid |-> 0]
NoneId == "<None>"

\* the value of the class attribute `id` of each class
ClassId(c) ==
    CASE c = "PluginA"  -> "a"
      [] c = "PluginA2" -> "a"
      [] c = "PluginB"  -> "b"
      [] c = "PluginC"  -> "c"
      [] c = "DemoPlugin" -> "demo"
      [] c = "Nav30"    -> "n30"
      [] c = "Nav10"    -> "n10"
      [] c = "Nav20"    -> "n20"
      [] c = "DockPlugin"  -> "dp"
      [] c = "DockPlugin2" -> "dp2"
      [] c = "LazyPlugin"  -> "lz"
      [] c = "PanelsPlugin" -> "panels"
      [] c = "DockF"    -> "f"
      [] c = "DockSetting" -> "ds"
      [] c = "DockD"    -> "d"
      [] c = "DockE"    -> "e"
      [] c = "SettingS" -> "s"
      [] c = "SettingT" -> "t"
      [] c = "Tool"     -> "tool"
      [] c = "EnabledExtensionsSetting" -> "application/enabledExtensions"
      [] OTHER          -> NoneId

\* registrable.id
IdOf(o) == ClassId(o.cls)

\* the objects handed to the stand-alone registry: distinct objects, some of
\* which share their id
Objs == {[cls |-> IF n % 2 = 1 THEN "PluginA" ELSE "PluginB", oid |-> n] : n \in 1..NumObjs}

\* sequences over S of length at most n
RECURSIVE SeqsUpTo(_, _)
SeqsUpTo(S, n) ==
    IF n = 0 THEN {<<>>}
    ELSE LET shorter == SeqsUpTo(S, n - 1)
         IN  shorter \cup {Append(s, x) : s \in shorter, x \in S}

\* dict.get(k, None)
DictGet(d, k) ==
    IF \E i \in DOMAIN d : d[i].key = k
    THEN d[CHOOSE i \in DOMAIN d : d[i].key = k].val
    ELSE None

\* d[k] = v
DictSet(d, k, v) ==
    IF \E i \in DOMAIN d : d[i].key = k
    THEN [i \in DOMAIN d |-> IF d[i].key = k THEN [key |-> k, val |-> v] ELSE d[i]]
    ELSE Append(d, [key |-> k, val |-> v])

\* d.pop(k) for a key that is present
DictPop(d, k) == SelectSeq(d, LAMBDA e : e.key # k)

----------------------------------------------------------------------------
(* BaseRegistry. *)

\* signal.emit(obj) with n connected observers: each observer runs once, inside
\* the call, and sees the registry as it is at that moment (`stored` is what
\* registry.registrable(obj.id) returns to it).
Emit(sig, obj, n, view) ==
    [i \in 1..n |-> [sig |-> sig, obj |-> obj, obs |-> i,
                     stored |-> DictGet(view, IdOf(obj))]]

AlreadyExists == "RegistrableAlreadyExistsError"
NotFound == "RegistrableNotFoundError"
NoError == "none"

RegAdd1_NoCheck(reg, o, n) ==
    LET after == DictSet(reg, IdOf(o), o)
    IN  [reg |-> after, events |-> Emit("registrableAdded", o, n, after), err |-> NoError]

RegAdd1_EmitFirst(reg, o, n) ==
    IF DictGet(reg, IdOf(o)) # None
    THEN [reg |-> reg, events |-> <<>>, err |-> AlreadyExists]
    ELSE [reg |-> DictSet(reg, IdOf(o), o),
          events |-> Emit("registrableAdded", o, n, reg), err |-> NoError]

\* BaseRegistry.add, the branch of a single Registrable
RegAdd1(reg, o, n) ==
    IF DictGet(reg, IdOf(o)) # None
    THEN [reg |-> reg, events |-> <<>>, err |-> AlreadyExists]
    ELSE LET after == DictSet(reg, IdOf(o), o)
         IN  [reg |-> after, events |-> Emit("registrableAdded", o, n, after),
              err |-> NoError]

RECURSIVE RegAddLoop(_, _, _)
RegAddLoop(reg, items, n) ==
    IF items = <<>> THEN [reg |-> reg, events |-> <<>>, err |-> NoError]
    ELSE LET one == RegAdd1(reg, Head(items), n)
         IN  IF one.err # NoError THEN one
             ELSE LET rest == RegAddLoop(one.reg, Tail(items), n)
                  IN  [reg |-> rest.reg, events |-> one.events \o rest.events,
                       err |-> rest.err]

RegAddList_Atomic(reg, items, n) ==
    LET r == RegAddLoop(reg, items, n)
    IN  IF r.err # NoError THEN [reg |-> reg, events |-> <<>>, err |-> r.err] ELSE r

\* BaseRegistry.add, the branch of a list: for r in registrable: self.add(r)
RegAddList(reg, items, n) == RegAddLoop(reg, items, n)

\* BaseRegistry.add(registrable)
RegAdd(reg, arg, n) ==
    IF arg.isList THEN RegAddList(reg, arg.items, n)
    ELSE RegAdd1(reg, arg.items[1], n)

RegRemove1_EmitFirst(reg, o, n) ==
    IF DictGet(reg, IdOf(o)) = None
    THEN [reg |-> reg, events |-> <<>>, err |-> NotFound]
    ELSE [reg |-> DictPop(reg, IdOf(o)),
          events |-> Emit("registrableRemoved", o, n, reg), err |-> NoError]

\* BaseRegistry.remove, the branch of a single Registrable
RegRemove1(reg, o, n) ==
    IF DictGet(reg, IdOf(o)) = None
    THEN [reg |-> reg, events |-> <<>>, err |-> NotFound]
    ELSE LET after == DictPop(reg, IdOf(o))
         IN  [reg |-> after, events |-> Emit("registrableRemoved", o, n, after),
              err |-> NoError]

\* BaseRegistry.remove, the branch of a list: for r in registrable: self.remove(r)
RECURSIVE RegRemoveList(_, _, _)
RegRemoveList(reg, items, n) ==
    IF items = <<>> THEN [reg |-> reg, events |-> <<>>, err |-> NoError]
    ELSE LET one == RegRemove1(reg, Head(items), n)
         IN  IF one.err # NoError THEN one
             ELSE LET rest == RegRemoveList(one.reg, Tail(items), n)
                  IN  [reg |-> rest.reg, events |-> one.events \o rest.events,
                       err |-> rest.err]

\* BaseRegistry.remove(registrable)
RegRemove(reg, arg, n) ==
    IF arg.isList THEN RegRemoveList(reg, arg.items, n)
    ELSE RegRemove1(reg, arg.items[1], n)

\* the arguments of add and remove: one Registrable, or a list of them
RegArgs(maxLen) ==
    {[isList |-> FALSE, items |-> <<o>>] : o \in Objs}
        \cup {[isList |-> TRUE, items |-> s] : s \in SeqsUpTo(Objs, maxLen)}

\* no Worker exists
NoWorkers == wpc = <<>> /\ wout = <<>> /\ wlog = <<>>

\* the Loader has not been called
NoLoad == loadIn = [op |-> "none"] /\ loadOut = [op |-> "none"]

\* PasswordGenerator.generatePassword has not been called
NoPassword == pwCall = [op |-> "none"]

\* _MainWindow.__init__: nothing selected, no dock shown
EmptyWindow ==
    [checked |-> NoneId, loose |-> {}, current |-> NoneId, selected |-> NoneId,
     pending |-> <<>>, dockBtns |-> <<>>, dockWidgets |-> <<>>, visible |-> {},
     currentDock |-> NoneId]

\* no application shell exists
NoApp ==
    /\ mainWindow = EmptyWindow
    /\ storedPlugin = NoneId
    /\ connected = FALSE
    /\ slotErrors = "raised"
    /\ dockRegistry = <<>>
    /\ settingRegistry = <<>>
    /\ routeLog = <<>>
    /\ navBar = [shown |-> FALSE, entries |-> <<>>]
    /\ appCall = [op |-> "none", n |-> 0]

\* PluginService.__init__, with nothing on disk
NoService ==
    /\ NoApp
    /\ manifests = <<>>
    /\ enabledIds = <<>>
    /\ moduleList = <<>>
    /\ pluginRegistry = <<>>
    /\ pluginAddedLog = <<>>
    /\ addLog = <<>>
    /\ loaderRuns = <<>>
    /\ loaded = <<>>
    /\ ingested = <<>>
    /\ activations = <<>>
    /\ nextOid = 1
    /\ svcCall = [op |-> "none", err |-> NoError, n |-> 0, loads |-> 0, pre |-> 0,
                 acts |-> 0, was |-> [modules |-> <<>>, reg |-> <<>>, runs |-> 0]]

\* BaseRegistry.__init__
RegInit ==
    /\ NoPassword
    /\ NoWorkers
    /\ NoLoad
    /\ NoService
    /\ registry = <<>>
    /\ lastCall = [op |-> "none", arg |-> [isList |-> TRUE, items |-> <<>>],
                   pre |-> <<>>, err |-> NoError, events |-> <<>>]

\* a caller runs registry.add(arg) to its end (return or raise)
Add ==
    \E arg \in RegArgs(MaxList) :
        LET r == RegAdd(registry, arg, NumObservers)
        IN  /\ registry' = r.reg
            /\ lastCall' = [op |-> "add", arg |-> arg, pre |-> registry,
                            err |-> r.err, events |-> r.events]
            /\ UNCHANGED <<workerVars, loaderVars, svcVars>>

\* a caller runs registry.remove(arg) to its end (return or raise)
Remove ==
    \E arg \in RegArgs(MaxRemoveList) :
        LET r == RegRemove(registry, arg, NumObservers)
        IN  /\ registry' = r.reg
            /\ lastCall' = [op |-> "remove", arg |-> arg, pre |-> registry,
                            err |-> r.err, events |-> r.events]
            /\ UNCHANGED <<workerVars, loaderVars, svcVars>>

RegNext == Add \/ Remove

SpecRegistry == RegInit /\ [][RegNext]_vars

----------------------------------------------------------------------------
(* Worker: run() on a thread of the pool.  Each Worker takes its own steps,
   interleaved with those of the other Workers. *)

Workers == 1..NumWorkers

\* the registry is not touched while the Workers run
RegIdle ==
    /\ registry = <<>>
    /\ lastCall = [op |-> "none", arg |-> [isList |-> TRUE, items |-> <<>>],
                   pre |-> <<>>, err |-> NoError, events |-> <<>>]

\* Worker.__init__ and QThreadPool.start: the Workers wait for a thread
WorkerInit ==
    /\ NoPassword
    /\ RegIdle
    /\ NoLoad
    /\ NoService
    /\ wpc = [w \in Workers |-> "queued"]
    /\ wout = [w \in Workers |-> "pending"]
    /\ wlog = [w \in Workers |-> <<>>]

\* a pool thread calls run(): the try block is entered
WorkerStart(w) ==
    /\ wpc[w] = "queued"
    /\ wpc' = [wpc EXCEPT ![w] = "try"]
    /\ UNCHANGED <<wout, wlog, regVars, loaderVars, svcVars>>

\* result = self.fn(*self.args, **self.kwargs) returns: the else clause is next
FnReturns(w) ==
    /\ wpc[w] = "try"
    /\ wpc' = [wpc EXCEPT ![w] = "else"]
    /\ wout' = [wout EXCEPT ![w] = "returned"]
    /\ UNCHANGED <<wlog, regVars, loaderVars, svcVars>>

\* self.fn(...) raises: the bare except clause is next
FnRaises(w) ==
    /\ wpc[w] = "try"
    /\ wpc' = [wpc EXCEPT ![w] = "except"]
    /\ wout' = [wout EXCEPT ![w] = "raised"]
    /\ UNCHANGED <<wlog, regVars, loaderVars, svcVars>>

EmitError_FallThrough(w) ==
    /\ wpc[w] = "except"
    /\ wlog' = [wlog EXCEPT ![w] = Append(@, "error")]
    /\ wpc' = [wpc EXCEPT ![w] = "else"]
    /\ UNCHANGED <<wout, regVars, loaderVars, svcVars>>

\* except: self.signals.error.emit(...), then the finally clause
EmitError(w) ==
    /\ wpc[w] = "except"
    /\ wlog' = [wlog EXCEPT ![w] = Append(@, "error")]
    /\ wpc' = [wpc EXCEPT ![w] = "finally"]
    /\ UNCHANGED <<wout, regVars, loaderVars, svcVars>>

\* else: self.signals.result.emit(result), then the finally clause
EmitResult(w) ==
    /\ wpc[w] = "else"
    /\ wlog' = [wlog EXCEPT ![w] = Append(@, "result")]
    /\ wpc' = [wpc EXCEPT ![w] = "finally"]
    /\ UNCHANGED <<wout, regVars, loaderVars, svcVars>>

\* finally: self.signals.finished.emit(), and run() is over
EmitFinished(w) ==
    /\ wpc[w] = "finally"
    /\ wlog' = [wlog EXCEPT ![w] = Append(@, "finished")]
    /\ wpc' = [wpc EXCEPT ![w] = "done"]
    /\ UNCHANGED <<wout, regVars, loaderVars, svcVars>>

WorkerNext ==
    \E w \in Workers :
        \/ WorkerStart(w)
        \/ FnReturns(w)
        \/ FnRaises(w)
        \/ EmitError(w)
        \/ EmitResult(w)
        \/ EmitFinished(w)

SpecWorker == WorkerInit /\ [][WorkerNext]_vars

----------------------------------------------------------------------------
(* RegistrableLoader.  A path names a node of the file system: a directory
   with its entries in iterdir() order, or a file with its name and, for a
   code unit, the values bound at its top level (module.__dict__, in order).
   A value is the name of a class, or "function" for anything that is no
   class. *)

\* the direct base class of each class
Parent(c) ==
    CASE c = "BasePlugin"  -> "Registrable"
      [] c = "BaseDock"    -> "Registrable"
      [] c = "BaseSetting" -> "Registrable"
      [] c = "PluginA"     -> "BasePlugin"
      [] c = "PluginA2"    -> "BasePlugin"
      [] c = "PluginB"     -> "BasePlugin"
      [] c = "PluginC"     -> "BasePlugin"
      [] c = "DemoPlugin"  -> "BasePlugin"
      [] c = "Nav30"       -> "BasePlugin"
      [] c = "Nav10"       -> "BasePlugin"
      [] c = "Nav20"       -> "BasePlugin"
      [] c = "DockPlugin"  -> "BasePlugin"
      [] c = "DockPlugin2" -> "BasePlugin"
      [] c = "LazyPlugin"  -> "BasePlugin"
      [] c = "PanelsPlugin" -> "BasePlugin"
      [] c = "DockF"       -> "BaseDock"
      [] c = "DockSetting" -> "BaseDock"
      [] c = "DockD"       -> "BaseDock"
      [] c = "DockE"       -> "BaseDock"
      [] c = "SettingS"    -> "BaseSetting"
      [] c = "SettingT"    -> "BaseSetting"
      [] c = "EnabledExtensionsSetting" -> "BaseSetting"
      [] c = "Tool"        -> "Registrable"
      [] OTHER             -> "object"

Classes == {"Registrable", "BasePlugin", "BaseDock", "BaseSetting", "PluginA",
            "PluginA2", "PluginB", "PluginC", "DemoPlugin", "Nav30", "Nav10",
            "Nav20", "DockPlugin", "DockPlugin2", "LazyPlugin", "DockD", "DockE",
            "SettingS", "SettingT", "EnabledExtensionsSetting", "Tool",
            "PanelsPlugin", "DockF", "DockSetting"}

\* the second base class of a class that has two: class DockSetting(BaseDock,
\* BaseSetting)
SecondBase(c) == IF c = "DockSetting" THEN "BaseSetting" ELSE "object"

\* isinstance(obj, type)
IsType(v) == v \in Classes

\* issubclass(c, base)
RECURSIVE IsSubclass(_, _)
IsSubclass(c, base) ==
    \/ c = base
    \/ c \in Classes /\ IsSubclass(Parent(c), base)
    \/ c \in Classes /\ IsSubclass(SecondBase(c), base)

\* _isValidModule(module.name, module.suffix)
IsValidModule(name) == name.suffix = ".py" /\ ~name.hidden

FileNotFound == "FileNotFoundError"
LoadFailure == "Exception"

\* the loop of _loadRegistrablesFromModule over module.__dict__.items(): every
\* binding whose value is a class below class_ gives one new instance
RECURSIVE InstantiateAll(_, _, _)
InstantiateAll(ns, class_, next) ==
    IF ns = <<>> THEN [objs |-> <<>>, err |-> NoError, next |-> next]
    ELSE LET obj == Head(ns)
         IN  IF IsType(obj) /\ IsSubclass(obj, class_) /\ obj # class_
             THEN LET rest == InstantiateAll(Tail(ns), class_, next + 1)
                  IN  [rest EXCEPT !.objs = <<[cls |-> obj, oid |-> next]>> \o @]
             ELSE InstantiateAll(Tail(ns), class_, next)

\* RegistrableLoader._loadRegistrablesFromModule(module, class_)
LoadRegistrablesFromModule(file, class_, next) ==
    IF ~IsValidModule(file.name)
    THEN [objs |-> <<>>, err |-> NoError, next |-> next]
    ELSE IF file.kind = "missing"
    THEN [objs |-> <<>>, err |-> FileNotFound, next |-> next]
    ELSE IF file.raises
    THEN [objs |-> <<>>, err |-> LoadFailure, next |-> next]
    ELSE InstantiateAll(file.ns, class_, next)

\* RegistrableLoader.load(path, class_): a directory is walked entry by entry,
\* sub-directories by recursion; the first error ends the call
RECURSIVE Load(_, _, _)
RECURSIVE LoadEntries(_, _, _)
Load(node, class_, next) ==
    IF node.kind = "dir" THEN LoadEntries(node.entries, class_, next)
    ELSE LoadRegistrablesFromModule(node, class_, next)

LoadEntries(entries, class_, next) ==
    IF entries = <<>> THEN [objs |-> <<>>, err |-> NoError, next |-> next]
    ELSE LET one == Load(Head(entries), class_, next)
         IN  IF one.err # NoError THEN [one EXCEPT !.objs = <<>>]
             ELSE LET rest == LoadEntries(Tail(entries), class_, one.next)
                  IN  IF rest.err # NoError THEN rest
                      ELSE [rest EXCEPT !.objs = one.objs \o @]

PyName(stem) == [stem |-> stem, suffix |-> ".py", hidden |-> FALSE]
HiddenName(stem) == [stem |-> stem, suffix |-> ".py", hidden |-> TRUE]
TextName(stem) == [stem |-> stem, suffix |-> ".txt", hidden |-> FALSE]

\* a code unit on disk, a directory, and a path that names nothing
Unit(name, ns) == [kind |-> "file", name |-> name, ns |-> ns, raises |-> FALSE]
BrokenUnit(name) == [kind |-> "file", name |-> name, ns |-> <<>>, raises |-> TRUE]
PlainName(stem) == [stem |-> stem, suffix |-> "", hidden |-> FALSE]
Dir(stem, entries) == [kind |-> "dir", name |-> PlainName(stem), entries |-> entries]
Missing(name) == [kind |-> "missing", name |-> name]

\* what a code unit handed to the Loader binds at its top level
NsValues == {"BasePlugin", "PluginA", "PluginB", "DockD", "function"}
Namespaces == SeqsUpTo(NsValues, MaxBindings)

\* the paths handed to the Loader: one code unit, or a directory with a code
\* unit, a hidden file, a text file and a sub-directory with a second unit
LoaderInputs ==
    {Unit(PyName("u"), ns) : ns \in Namespaces}
        \cup {Dir("pkg", <<Unit(PyName("u"), ns1),
                           Unit(HiddenName("h"), <<"PluginB">>),
                           Unit(TextName("t"), <<"PluginA">>),
                           Dir("sub", <<Unit(PyName("v"), ns2)>>)>>) :
                 ns1 \in Namespaces, ns2 \in Namespaces}
        \cup {Missing(PyName("gone")), Missing(TextName("gone")),
              Dir("bad", <<Unit(PyName("u"), <<"PluginA">>), BrokenUnit(PyName("x"))>>)}

Capabilities == {"BasePlugin", "BaseDock"}

\* a caller is about to run RegistrableLoader.load(node, class_)
LoaderInit ==
    /\ NoPassword
    /\ RegIdle
    /\ NoWorkers
    /\ NoService
    /\ loadIn \in [op : {"load"}, node : LoaderInputs, class_ : Capabilities]
    /\ loadOut = [op |-> "none"]

\* the caller runs RegistrableLoader.load(path, class_) to its end
LoaderCall ==
    /\ loadOut.op = "none"
    /\ loadOut' = [op |-> "load"] @@ Load(loadIn.node, loadIn.class_, 1)
    /\ UNCHANGED <<loadIn, regVars, workerVars, svcVars>>

LoaderNext == LoaderCall

SpecLoader == LoaderInit /\ [][LoaderNext]_vars

----------------------------------------------------------------------------
(* PluginService.  A path is the sequence of its components below the root.
   The state of the services travels through the operators as a record
   S = [modules, reg, added, adds, runs, loaded, next, connected, policy,
        docks, settings, routed, acts]. *)

\* the module directories on disk: m1 holds PluginA and, in its sub-directory
\* sub, PluginB; m2 holds PluginC; m3 holds a unit that fails to load; dup
\* holds two Plugins with the same id; nav holds three Plugins with a page
\* each; aux holds Plugins with Registrables
FsRoot ==
    Dir("/", <<
        Dir("ext", <<
            Dir("m1", <<
                Unit(PyName("a"), <<"BasePlugin", "PluginA">>),
                Unit(HiddenName("h"), <<"BasePlugin", "PluginC">>),
                Dir("sub", <<Unit(PyName("b"), <<"BasePlugin", "PluginB">>)>>)
            >>),
            Dir("m2", <<Unit(PyName("c"), <<"BasePlugin", "function", "PluginC">>)>>),
            Dir("m3", <<Unit(PyName("ok"), <<"BasePlugin", "PluginC">>),
                        BrokenUnit(PyName("x"))>>),
            Dir("dup", <<Unit(PyName("p"), <<"BasePlugin", "PluginA">>),
                         Unit(PyName("q"), <<"BasePlugin", "PluginA2">>)>>),
            Dir("nav", <<Unit(PyName("nav"),
                              <<"BasePlugin", "Nav30", "Nav10", "Nav20">>)>>),
            Dir("aux", <<Unit(PyName("aux"),
                              <<"BasePlugin", "DockPlugin", "DockPlugin2",
                                "LazyPlugin">>)>>)
        >>)
    >>)

\* the node a path names (Path.is_dir and Path.iterdir read the disk); the
\* components of a path are names without a suffix
RECURSIVE Resolve(_, _)
Resolve(node, path) ==
    IF path = <<>> THEN node
    ELSE IF node.kind = "dir" /\ \E i \in DOMAIN node.entries :
                                    node.entries[i].name = PlainName(Head(path))
    THEN Resolve(node.entries[CHOOSE i \in DOMAIN node.entries :
                                  node.entries[i].name = PlainName(Head(path))],
                 Tail(path))
    ELSE Missing(PlainName(path[Len(path)]))

\* Path.joinpath of a relative path
JoinPath(base, rel) == base \o rel

\* the working directory of the process
Cwd == <<"ext">>

\* Path(path).resolve(): a relative path is taken from the working directory
PathResolve(path) == IF path.absolute THEN path.parts ELSE Cwd \o path.parts

\* Path.parent
PathParent(parts) == SubSeq(parts, 1, Len(parts) - 1)

\* x in list
InList(x, list) == \E i \in DOMAIN list : list[i] = x

\* a str-typed field that holds None
NoneStr == NoneId

\* a JSON string and JSON null
JStr(s) == [t |-> "string", v |-> s]
JNull == [t |-> "null"]

\* the JSON object a ModuleMetadata value is written as
ToJson(md) ==
    [id |-> JStr(md.id), relativePath |-> JStr(md.relativePath),
     displayName |-> JStr(md.displayName),
     description |-> IF md.description = NoneStr THEN JNull
                     ELSE JStr(md.description)]

\* a manifest entry as it was written: a ModuleMetadata value, and the keys a
\* hand edit has removed from its JSON object
Draft(id, relativePath, displayName, description, drop) ==
    [md |-> [id |-> id, relativePath |-> relativePath,
             displayName |-> displayName, description |-> description],
     drop |-> drop]

\* the text of a repository file: a JSON list with one object per entry
FileText(file) ==
    [i \in DOMAIN file.entries |->
        LET obj == ToJson(file.entries[i].md)
        IN  [k \in (DOMAIN obj) \ file.entries[i].drop |-> obj[k]]]

\* json.load: a JSON object becomes a dict, a string a str, null None
JsonLoad(text) ==
    [i \in DOMAIN text |->
        [k \in DOMAIN text[i] |->
            IF text[i][k].t = "null" THEN NoneStr ELSE text[i][k].v]]

ManifestError == "TypeError"

\* the fields of the dataclass ModuleMetadata, and those without a default
MetadataFields == {"id", "relativePath", "displayName", "description"}
RequiredFields == {"id", "relativePath", "displayName"}

\* ModuleMetadata(**obj)
ModuleMetadata(obj) ==
    IF RequiredFields \subseteq DOMAIN obj /\ DOMAIN obj \subseteq MetadataFields
    THEN [err |-> NoError,
          value |-> [id |-> obj.id, relativePath |-> obj.relativePath,
                     displayName |-> obj.displayName,
                     description |-> IF "description" \in DOMAIN obj
                                     THEN obj.description ELSE NoneStr]]
    ELSE [err |-> ManifestError]

\* the manifest entries a repository file may hold: ids that collide, a
\* directory inside another module's directory, a module that fails to load,
\* and an entry whose displayName was removed
Catalogue ==
    {Draft("M1", <<"m1">>, "One", "the first", {}),
     Draft("M2", <<"m1", "sub">>, "Two", NoneStr, {}),
     Draft("M1", <<"m2">>, "Uno", NoneStr, {"description"}),
     Draft("M3", <<"m3">>, "Three", "fails", {}),
     Draft("M2", <<"m2">>, "Dos", NoneStr, {"displayName"})}

\* an entry is well-formed when its JSON object has every required key
WellFormed(entry) == entry.drop \cap RequiredFields = {}

\* the ways to cut a sequence into k consecutive parts
RECURSIVE Splits(_, _)
Splits(seq, k) ==
    IF k <= 1 THEN {<<seq>>}
    ELSE UNION {{<<SubSeq(seq, 1, i)>> \o rest :
                    rest \in Splits(SubSeq(seq, i + 1, Len(seq)), k - 1)} :
                i \in 0..Len(seq)}

\* the path the i-th repository file is handed over as: the first relative to
\* the working directory, the others absolute
ManifestPath(i) ==
    IF i = 1 THEN [absolute |-> FALSE, parts |-> <<"repo" \o ToString(i)>>]
    ELSE [absolute |-> TRUE, parts |-> <<"ext", "repo" \o ToString(i)>>]

\* the repository files on disk: every manifest lies in the directory ext
ManifestLists ==
    UNION {{[i \in DOMAIN parts |-> [path |-> ManifestPath(i), entries |-> parts[i]]] :
               parts \in Splits(seq, NumRepos)} :
           seq \in SeqsUpTo(Catalogue, MaxEntries)}

EnabledLists == {<<>>, <<"M1">>, <<"M2">>, <<"M1", "M2">>, <<"M1", "M2", "M3">>}

\* plugins created by the application itself (examples/demo.py)
DemoPlugins == {[cls |-> "DemoPlugin", oid |-> 0]}

LoadFromFile_SkipMalformed(file) ==
    LET jsonData == JsonLoad(FileText(file))
        good == SelectSeq(jsonData, LAMBDA obj : ModuleMetadata(obj).err = NoError)
    IN  [err |-> NoError, path |-> PathParent(PathResolve(file.path)),
         modulesMetadata |-> [i \in DOMAIN good |-> ModuleMetadata(good[i]).value]]

\* Repository.loadFromFile(path)
LoadFromFile(file) ==
    LET path == PathResolve(file.path)
        jsonData == JsonLoad(FileText(file))
        parsed == [i \in DOMAIN jsonData |-> ModuleMetadata(jsonData[i])]
    IN  IF \E i \in DOMAIN parsed : parsed[i].err # NoError
        THEN [err |-> ManifestError, path |-> <<>>, modulesMetadata |-> <<>>]
        ELSE [err |-> NoError, path |-> PathParent(path),
              modulesMetadata |-> [i \in DOMAIN parsed |-> parsed[i].value]]

Module_SwapNames(dirPath, metadata, mid) ==
    [mid |-> mid, id |-> metadata.id, displayName |-> metadata.description,
     description |-> metadata.displayName,
     path |-> JoinPath(dirPath, metadata.relativePath), enabled |-> FALSE]

\* Module.__init__(dirPath, metadata), the new object having identity mid
Module(dirPath, metadata, mid) ==
    [mid |-> mid, id |-> metadata.id, displayName |-> metadata.displayName,
     description |-> metadata.description,
     path |-> JoinPath(dirPath, metadata.relativePath), enabled |-> FALSE]

IsPresent_ById(items, item) == \E i \in DOMAIN items : items[i].id = item.id

\* ItemTableModel.isPresent: `item in self.items`; Module defines no __eq__,
\* so two Modules are equal only when they are the same object
IsPresent(items, item) == \E i \in DOMAIN items : items[i].mid = item.mid

\* ItemTableModel.appendItem(item)
AppendItem(items, item) ==
    IF IsPresent(items, item) THEN items ELSE Append(items, item)

\* PluginService.addModule(module)
AddModule(S, module) == [S EXCEPT !.modules = AppendItem(@, module)]

\* PluginService.addModulesFromRepository(repository)
RECURSIVE AddModulesFromRepository(_, _, _)
AddModulesFromRepository(S, dirPath, metadata) ==
    IF metadata = <<>> THEN S
    ELSE LET module == Module(dirPath, Head(metadata), S.next)
             S1 == AddModule([S EXCEPT !.next = @ + 1], module)
         IN  AddModulesFromRepository(S1, dirPath, Tail(metadata))

\* the first loop of PluginService.load
RECURSIVE IngestRepositories(_, _)
IngestRepositories(S, files) ==
    IF files = <<>> THEN [S |-> S, err |-> NoError]
    ELSE LET repository == LoadFromFile(Head(files))
         IN  IF repository.err # NoError THEN [S |-> S, err |-> repository.err]
             ELSE IngestRepositories(
                      AddModulesFromRepository(S, repository.path,
                                               repository.modulesMetadata),
                      Tail(files))

\* the classes of the Registrables a Plugin class offers, and whether its
\* constructor creates them ("ctor") or its registrables property does on
\* every read ("property"); BasePlugin.registrables returns []
AuxClasses(c) ==
    CASE c = "DockPlugin"  -> <<"Tool", "DockD", "SettingS">>
      [] c = "DockPlugin2" -> <<"DockD", "SettingT">>
      [] c = "LazyPlugin"  -> <<"DockE">>
      [] c = "PanelsPlugin" -> <<"DockD", "DockE", "DockF", "DockSetting">>
      [] OTHER             -> <<>>

AuxCreatedBy(c) == IF c = "LazyPlugin" THEN "property" ELSE "ctor"

\* plugin.registrables: the objects the constructor created, or new objects
\* when the property creates them
Registrables(plugin, next) ==
    LET classes == AuxClasses(plugin.cls)
    IN  IF AuxCreatedBy(plugin.cls) = "ctor"
        THEN [objs |-> [i \in DOMAIN classes |->
                           [cls |-> classes[i], oid |-> i,
                            owner |-> plugin.oid, by |-> "ctor"]],
              next |-> next]
        ELSE [objs |-> [i \in DOMAIN classes |->
                           [cls |-> classes[i], oid |-> next + i - 1,
                            owner |-> plugin.oid, by |-> "property"]],
              next |-> next + Len(classes)]

\* what a function returns after binding the result of a call to a name: the
\* one element of {rest(r) : r \in {call}}
Only(outcomes) == CHOOSE r \in outcomes : TRUE

\* DockService.addDock(dock)
AddDock(S, dock) ==
    Only({[S |-> [S EXCEPT !.docks = r.reg], err |-> r.err] :
             r \in {RegAdd(S.docks, [isList |-> FALSE, items |-> <<dock>>], 0)}})

\* SettingService.addSetting(setting)
AddSetting(S, setting) ==
    Only({[S |-> [S EXCEPT !.settings = r.reg], err |-> r.err] :
             r \in {RegAdd(S.settings, [isList |-> FALSE, items |-> <<setting>>], 0)}})

HandleRegistrable_Strict(S, registrable) ==
    IF IsSubclass(registrable.cls, "BaseDock") THEN AddDock(S, registrable)
    ELSE IF IsSubclass(registrable.cls, "BaseSetting") THEN AddSetting(S, registrable)
    ELSE [S |-> S, err |-> "TypeError"]

\* BaseApplication.handleRegistrable(registrable)
HandleRegistrable(S, registrable) ==
    Only({IF first.err # NoError THEN first
          ELSE IF IsSubclass(registrable.cls, "BaseSetting")
          THEN AddSetting(first.S, registrable)
          ELSE first :
             first \in {IF IsSubclass(registrable.cls, "BaseDock")
                        THEN AddDock(S, registrable)
                        ELSE [S |-> S, err |-> NoError]}})

\* for registrable in plugin.registrables: self.handleRegistrable(registrable)
RECURSIVE HandleAll(_, _)
HandleAll(S, objs) ==
    IF objs = <<>> THEN [S |-> S, err |-> NoError]
    ELSE Only({IF one.err # NoError THEN one ELSE HandleAll(one.S, Tail(objs)) :
                  one \in {HandleRegistrable(S, Head(objs))}})

\* BaseApplication.onPluginAdded(plugin)
OnPluginAdded(S, plugin) ==
    LET read == Registrables(plugin, S.next)
    IN  Only({[S |-> [r.S EXCEPT !.routed = Append(@, [plugin |-> plugin,
                                                       objs |-> read.objs,
                                                       err |-> r.err])],
               err |-> r.err] :
                 r \in {HandleAll([S EXCEPT !.next = read.next], read.objs)}})

\* pluginAdded.emit(plugin): the connected observer runs inside the call; an
\* error it raises is printed by the Qt binding, or reaches the emitter
EmitPluginAdded(S, plugin) ==
    IF ~S.connected THEN [S |-> S, err |-> NoError]
    ELSE Only({[S |-> r.S, err |-> IF S.policy = "raised" THEN r.err ELSE NoError] :
                  r \in {OnPluginAdded(S, plugin)}})

RECURSIVE OnRegistrableAdded_Twice(_, _)
OnRegistrableAdded_Twice(S, events) ==
    IF events = <<>> THEN [S |-> S, err |-> NoError]
    ELSE LET plugin == Head(events).obj
         IN  Only({IF one.err # NoError THEN one
                   ELSE OnRegistrableAdded_Twice(one.S, Tail(events)) :
                      one \in {EmitPluginAdded(
                                  [S EXCEPT !.added = @ \o <<plugin, plugin>>],
                                  plugin)}})

\* the observer PluginService.__init__ connects to registry.registrableAdded:
\* lambda plugin: self.pluginAdded.emit(plugin)
RECURSIVE OnRegistrableAdded(_, _)
OnRegistrableAdded(S, events) ==
    IF events = <<>> THEN [S |-> S, err |-> NoError]
    ELSE LET plugin == Head(events).obj
         IN  Only({IF one.err # NoError THEN one
                   ELSE OnRegistrableAdded(one.S, Tail(events)) :
                      one \in {EmitPluginAdded([S EXCEPT !.added = Append(@, plugin)],
                                               plugin)}})

\* PluginService.addPlugin(plugin); `err` is what the registry's duplicate check
\* found, `ret` how the call ended
AddPlugin(S, plugin) ==
    Only({Only({LET ret == IF r.err # NoError THEN r.err ELSE n.err
                IN  [S |-> [n.S EXCEPT !.adds = Append(@, [plugin |-> plugin,
                                                           err |-> r.err,
                                                           ret |-> ret])],
                     err |-> ret] :
                   n \in {OnRegistrableAdded([S EXCEPT !.reg = r.reg], r.events)}}) :
             r \in {RegAdd(S.reg, [isList |-> FALSE, items |-> <<plugin>>], 1)}})

\* for plugin in plugins: self.addPlugin(plugin)
RECURSIVE AddPlugins(_, _)
AddPlugins(S, plugins) ==
    IF plugins = <<>> THEN [S |-> S, err |-> NoError]
    ELSE Only({IF one.err # NoError THEN one ELSE AddPlugins(one.S, Tail(plugins)) :
                  one \in {AddPlugin(S, Head(plugins))}})

AddPluginsFromModule_EnableOnSuccess(S, i) ==
    LET path == S.modules[i].path
        r == Load(Resolve(FsRoot, path), "BasePlugin", S.next)
        S1 == [S EXCEPT !.modules[i].enabled = (r.err = NoError),
                        !.runs = Append(@, path),
                        !.next = r.next]
        Done(T, err) ==
            [S |-> [T EXCEPT !.acts = Append(@, [mid |-> S.modules[i].mid,
                                                 objs |-> r.objs, err |-> err])],
             err |-> err]
    IN  IF r.err # NoError THEN Done(S1, r.err)
        ELSE Only({Done(a.S, a.err) :
                      a \in {AddPlugins([S1 EXCEPT !.loaded = @ \o r.objs], r.objs)}})

\* PluginService.addPluginsFromModule(module), module being the i-th of the list
AddPluginsFromModule(S, i) ==
    LET path == S.modules[i].path
        r == Load(Resolve(FsRoot, path), "BasePlugin", S.next)
        S1 == [S EXCEPT !.modules[i].enabled = TRUE,
                        !.runs = Append(@, path),
                        !.next = r.next]
        Done(T, err) ==
            [S |-> [T EXCEPT !.acts = Append(@, [mid |-> S.modules[i].mid,
                                                 objs |-> r.objs, err |-> err])],
             err |-> err]
    IN  IF r.err # NoError THEN Done(S1, r.err)
        ELSE Only({Done(a.S, a.err) :
                      a \in {AddPlugins([S1 EXCEPT !.loaded = @ \o r.objs], r.objs)}})

ShouldActivate_All(module, moduleIds) == TRUE

\* if module.id in moduleIds
ShouldActivate(module, moduleIds) == InList(module.id, moduleIds)

RECURSIVE ActivateModules_SkipFailed(_, _, _)
ActivateModules_SkipFailed(S, i, moduleIds) ==
    IF i > Len(S.modules) THEN [S |-> S, err |-> NoError]
    ELSE IF ShouldActivate(S.modules[i], moduleIds)
    THEN ActivateModules_SkipFailed(AddPluginsFromModule(S, i).S, i + 1, moduleIds)
    ELSE ActivateModules_SkipFailed(S, i + 1, moduleIds)

\* the second loop of PluginService.load, from the i-th module on
RECURSIVE ActivateModules(_, _, _)
ActivateModules(S, i, moduleIds) ==
    IF i > Len(S.modules) THEN [S |-> S, err |-> NoError]
    ELSE IF ShouldActivate(S.modules[i], moduleIds)
    THEN Only({IF one.err # NoError THEN one
               ELSE ActivateModules(one.S, i + 1, moduleIds) :
                  one \in {AddPluginsFromModule(S, i)}})
    ELSE ActivateModules(S, i + 1, moduleIds)

ServiceLoad_ActivateAnyway(S, repositoryFiles, moduleIds) ==
    Only({Only({[S |-> second.S,
                 err |-> IF first.err # NoError THEN first.err ELSE second.err,
                 ingested |-> first.S.modules] :
                   second \in {ActivateModules(first.S, 1, moduleIds)}}) :
             first \in {IngestRepositories(S, repositoryFiles)}})

\* PluginService.load(repositoryFiles, moduleIds); `ingested` is the module
\* list between the two loops
ServiceLoad(S, repositoryFiles, moduleIds) ==
    Only({IF first.err # NoError
          THEN [S |-> first.S, err |-> first.err, ingested |-> first.S.modules]
          ELSE Only({[S |-> second.S, err |-> second.err,
                      ingested |-> first.S.modules] :
                        second \in {ActivateModules(first.S, 1, moduleIds)}}) :
             first \in {IngestRepositories(S, repositoryFiles)}})

\* the services as one record
ServiceState ==
    [modules |-> moduleList, reg |-> pluginRegistry, added |-> pluginAddedLog,
     adds |-> addLog, runs |-> loaderRuns, loaded |-> loaded, next |-> nextOid,
     connected |-> connected, policy |-> slotErrors, docks |-> dockRegistry,
     settings |-> settingRegistry, routed |-> routeLog, acts |-> activations]

SetService(S) ==
    /\ moduleList' = S.modules
    /\ pluginRegistry' = S.reg
    /\ pluginAddedLog' = S.added
    /\ addLog' = S.adds
    /\ loaderRuns' = S.runs
    /\ loaded' = S.loaded
    /\ nextOid' = S.next
    /\ dockRegistry' = S.docks
    /\ settingRegistry' = S.settings
    /\ routeLog' = S.routed
    /\ activations' = S.acts

\* what a call of the service finds: the module list, the Plugin Registry and
\* the number of Loader runs so far
ServiceBefore ==
    [modules |-> moduleList, reg |-> pluginRegistry, runs |-> Len(loaderRuns)]

\* PluginService.__init__
ServiceCreated ==
    /\ moduleList = <<>>
    /\ pluginRegistry = <<>>
    /\ pluginAddedLog = <<>>
    /\ addLog = <<>>
    /\ loaderRuns = <<>>
    /\ loaded = <<>>
    /\ ingested = <<>>
    /\ activations = <<>>
    /\ nextOid = 1
    /\ svcCall = [op |-> "none", err |-> NoError, n |-> 0, loads |-> 0, pre |-> 0,
                 acts |-> 0, was |-> [modules |-> <<>>, reg |-> <<>>, runs |-> 0]]

\* PluginService.__init__ on a disk that holds some repository files, with some
\* persisted list of enabled module ids
ServiceInit ==
    /\ NoPassword
    /\ RegIdle
    /\ NoWorkers
    /\ NoLoad
    /\ NoApp
    /\ manifests \in ManifestLists
    /\ enabledIds \in EnabledLists
    /\ ServiceCreated

\* the application runs pluginService.load(repositoryFiles, enabledModuleIds)
\* to its end
SvcLoad ==
    /\ svcCall.n < MaxCalls
    /\ \E r \in {ServiceLoad(ServiceState, manifests, enabledIds)} :
           /\ SetService(r.S)
           /\ ingested' = r.ingested
           /\ svcCall' = [op |-> "load", err |-> r.err, n |-> svcCall.n + 1,
                          loads |-> svcCall.loads + 1, pre |-> Len(moduleList),
                          acts |-> Len(activations), was |-> ServiceBefore]
    /\ UNCHANGED <<manifests, enabledIds, connected, slotErrors, navBar, appCall,
                   regVars, workerVars, loaderVars, winVars, pwVars>>

\* the application runs pluginService.addPlugin(plugin) with a plugin of its own
SvcAddPlugin ==
    /\ svcCall.n < MaxCalls
    /\ \E plugin \in DemoPlugins :
          \E r \in {AddPlugin(ServiceState, plugin)} :
              /\ SetService(r.S)
              /\ svcCall' = [op |-> "addPlugin", err |-> r.err, n |-> svcCall.n + 1,
                             loads |-> svcCall.loads, pre |-> Len(moduleList),
                             acts |-> Len(activations), was |-> ServiceBefore]
    /\ UNCHANGED <<manifests, enabledIds, ingested, connected, slotErrors, navBar,
                   appCall, regVars, workerVars, loaderVars, winVars, pwVars>>

ServiceNext == SvcLoad \/ SvcAddPlugin

SpecService == ServiceInit /\ [][ServiceNext]_vars

----------------------------------------------------------------------------
(* BaseApplication: the shell that owns the three services, routes the
   Registrables of every added Plugin and renders the navigation bar; and the
   extension manager, which edits the module list and persists it. *)

\* the Setting BaseApplication.__init__ registers
EnabledExtensionsSetting ==
    [cls |-> "EnabledExtensionsSetting", oid |-> 0, owner |-> 0, by |-> "app"]

\* an object the integrator's code creates
AppObject(c) == [cls |-> c, oid |-> 0, owner |-> 0, by |-> "app"]

\* the Plugins the integrator adds with pluginService.addPlugin
AppPlugins == {[cls |-> "DemoPlugin", oid |-> 0], [cls |-> "DockPlugin2", oid |-> 0]}

\* the Registrables the integrator hands to handleRegistrable: a Dock, a
\* Setting and two objects of neither capability
HandleInputs == {AppObject(c) : c \in {"DockD", "SettingS", "Tool", "DemoPlugin"}}

\* the repository file and the enabled ids the application is started with
AppCatalogue(id) ==
    CASE id = "NAV" -> Draft("NAV", <<"nav">>, "Navigation", NoneStr, {})
      [] id = "AUX" -> Draft("AUX", <<"aux">>, "Auxiliaries", NoneStr, {})
      [] id = "M1"  -> Draft("M1", <<"m1">>, "One", "the first", {})
      [] id = "M2"  -> Draft("M2", <<"m1", "sub">>, "Two", NoneStr, {})
      [] id = "M3"  -> Draft("M3", <<"m3">>, "Three", "fails", {})
      [] id = "DUP" -> Draft("DUP", <<"dup">>, "Duplicates", NoneStr, {})

AppManifest(ids) ==
    <<[path |-> ManifestPath(1), entries |-> [i \in DOMAIN ids |-> AppCatalogue(ids[i])]]>>

AppManifestLists ==
    {AppManifest(<<"NAV", "AUX">>), AppManifest(<<"M2", "M1">>),
     AppManifest(<<"AUX", "M3", "NAV">>), AppManifest(<<"DUP", "NAV">>)}

AppEnabledLists == {<<"NAV">>, <<"NAV", "AUX", "M1", "M2", "M3", "DUP">>}

\* what the Qt binding does with an error raised in a connected observer: it
\* prints it and emit() returns, or it hands it to the caller of emit()
SlotErrorPolicies == {"printed", "raised"}

\* BaseApplication.__init__: the services are created, onPluginAdded is
\* connected, the EnabledExtensionsSetting is registered and the main window
\* is built
AppCreated ==
    /\ RegIdle
    /\ NoWorkers
    /\ NoLoad
    /\ NoPassword
    /\ ServiceCreated
    /\ connected = TRUE
    /\ slotErrors \in SlotErrorPolicies
    /\ dockRegistry = <<>>
    /\ settingRegistry = RegAdd1(<<>>, EnabledExtensionsSetting, 0).reg
    /\ routeLog = <<>>
    /\ navBar = [shown |-> FALSE, entries |-> <<>>]
    /\ mainWindow = EmptyWindow
    /\ appCall = [op |-> "none", n |-> 0]

\* the application of an integrator that starts with repository files on disk
\* and no stored selection
AppInit ==
    /\ AppCreated
    /\ manifests \in AppManifestLists
    /\ enabledIds \in AppEnabledLists
    /\ storedPlugin = NoneId

\* what a call on the shell found: the three registries, the module list and
\* the persisted list as they were when it started, and the number of calls
\* made on the PluginService until then
Before ==
    [plugins |-> pluginRegistry, docks |-> dockRegistry,
     settings |-> settingRegistry, modules |-> moduleList, persisted |-> enabledIds,
     calls |-> svcCall.n, window |-> mainWindow]

\* app.pluginService.addPlugin(plugin), run to its end
DoAddPlugin(plugin) ==
    /\ \E r \in {AddPlugin(ServiceState, plugin)} :
          /\ SetService(r.S)
          /\ appCall' = [op |-> "addPlugin", n |-> appCall.n + 1, arg |-> plugin,
                         err |-> r.err, pre |-> Before]
    /\ UNCHANGED <<manifests, enabledIds, ingested, svcCall, connected, slotErrors,
                   navBar, regVars, workerVars, loaderVars, winVars, pwVars>>

\* the integrator runs app.pluginService.addPlugin(plugin) to its end
AppAddPlugin ==
    /\ appCall.n < MaxAppCalls
    /\ \E plugin \in AppPlugins : DoAddPlugin(plugin)

\* the integrator runs app.handleRegistrable(registrable) to its end
CallHandleRegistrable ==
    /\ appCall.n < MaxAppCalls
    /\ \E registrable \in HandleInputs :
          \E r \in {HandleRegistrable(ServiceState, registrable)} :
              /\ SetService(r.S)
              /\ appCall' = [op |-> "handleRegistrable", n |-> appCall.n + 1,
                             arg |-> registrable, err |-> r.err, pre |-> Before]
    /\ UNCHANGED <<manifests, enabledIds, ingested, svcCall, connected, slotErrors,
                   navBar, regVars, workerVars, loaderVars, winVars, pwVars>>

\* list(d.values())
DictValues(d) == [i \in DOMAIN d |-> d[i].val]

\* some code reads plugin.registrables of a registered Plugin, twice
ReadRegistrables ==
    /\ appCall.n < MaxAppCalls
    /\ \E i \in DOMAIN pluginRegistry :
          LET plugin == pluginRegistry[i].val
              first == Registrables(plugin, nextOid)
              second == Registrables(plugin, first.next)
          IN  /\ nextOid' = second.next
              /\ appCall' = [op |-> "registrables", n |-> appCall.n + 1,
                             arg |-> plugin, err |-> NoError, pre |-> Before,
                             first |-> first.objs, second |-> second.objs]
    /\ UNCHANGED <<manifests, enabledIds, moduleList, pluginRegistry, pluginAddedLog,
                   addLog, loaderRuns, loaded, ingested, activations, svcCall,
                   connected, slotErrors, dockRegistry, settingRegistry, routeLog,
                   navBar, regVars, workerVars, loaderVars, winVars, pwVars>>

\* the priority a Plugin class passes to BasePlugin.__init__ (10 by default)
Priority(c) ==
    CASE c = "Nav30" -> 30
      [] c = "Nav20" -> 20
      [] OTHER       -> 10

\* whether plugin.widget() and plugin.navigationBarButton() return an object:
\* BasePlugin.widget returns None, and the button exists only when the
\* constructor got an icon and a tool tip
HasWidget(c) == c \in {"DemoPlugin", "Nav30", "Nav10", "Nav20", "PluginA"}
HasNavBarBtn(c) == c \in {"DemoPlugin", "Nav30", "Nav10", "Nav20", "PluginB"}

InsertByPriority_BeforeEqual(sorted, plugin) ==
    LET k == Cardinality({i \in DOMAIN sorted :
                             Priority(sorted[i].cls) < Priority(plugin.cls)})
    IN  SubSeq(sorted, 1, k) \o <<plugin>> \o SubSeq(sorted, k + 1, Len(sorted))

\* one step of list.sort(key=lambda p: p.priority): the sort is stable, so the
\* next item goes behind every item whose priority is not larger
InsertByPriority(sorted, plugin) ==
    LET k == Cardinality({i \in DOMAIN sorted :
                             Priority(sorted[i].cls) <= Priority(plugin.cls)})
    IN  SubSeq(sorted, 1, k) \o <<plugin>> \o SubSeq(sorted, k + 1, Len(sorted))

\* plugins.sort(key=lambda p: p.priority)
RECURSIVE SortByPriority(_)
SortByPriority(plugins) ==
    IF plugins = <<>> THEN <<>>
    ELSE InsertByPriority(SortByPriority(SubSeq(plugins, 1, Len(plugins) - 1)),
                          plugins[Len(plugins)])

\* _MainWindow.addPlugin(plugin): the navigation bar gains the Plugin's button
MainWindowAddPlugin(entries, plugin) ==
    IF ~HasWidget(plugin.cls) \/ ~HasNavBarBtn(plugin.cls) THEN entries
    ELSE Append(entries, plugin)

\* for plugin in plugins: self._mainWindow.addPlugin(plugin)
RECURSIVE RenderPlugins(_, _)
RenderPlugins(entries, plugins) ==
    IF plugins = <<>> THEN entries
    ELSE RenderPlugins(MainWindowAddPlugin(entries, Head(plugins)), Tail(plugins))

\* QStackedWidget.addWidget: the first widget added becomes the current one
StackAfter(W, entries) ==
    IF W.current = NoneId /\ entries # <<>>
    THEN [W EXCEPT !.current = IdOf(entries[1])] ELSE W

\* button.click() on the navigation button of a Plugin.  A button of the
\* navigation bar is in its exclusive button group: it becomes the checked one
\* and its clicked observer makes the Plugin's widget the current one.  The
\* button of a Plugin that _MainWindow.addPlugin did not take is checkable and
\* on its own: the click toggles it.
ClickNavButton(W, entries, plugin) ==
    IF InList(plugin, entries)
    THEN [W EXCEPT !.checked = IdOf(plugin), !.current = IdOf(plugin)]
    ELSE [W EXCEPT !.loose = IF IdOf(plugin) \in @ THEN @ \ {IdOf(plugin)}
                             ELSE @ \cup {IdOf(plugin)}]

\* _MainWindow.setCurrentPlugin(plugin, animate); animateClick() clicks later,
\* from the event loop
SetCurrentPlugin(W, entries, plugin, animate) ==
    IF plugin = None THEN [W |-> W, ret |-> "False"]
    ELSE IF ~HasNavBarBtn(plugin.cls) THEN [W |-> W, ret |-> "False"]
    ELSE [W |-> [(IF animate THEN [W EXCEPT !.pending = Append(@, plugin)]
                  ELSE ClickNavButton(W, entries, plugin))
                    EXCEPT !.selected = IdOf(plugin)],
          ret |-> "True"]

\* BaseApplication.navigate(pluginId, animate): the function ends without a
\* return statement, so the caller gets None
Navigate(W, entries, plugins, pluginId, animate) ==
    [W |-> SetCurrentPlugin(W, entries, DictGet(plugins, pluginId), animate).W,
     ret |-> "None"]

\* `not value` for the values that reach it here
Not(value) == value \in {"None", "False", "", NoneId}

\* the selection at start-up, lines 103-112 of run(): navigate is called when
\* a selection is stored, and the first navigation button is clicked when
\* nothing is stored or `not navigate(...)` holds
StartupSelection(W, entries, plugins, selectedPlugin) ==
    Only({IF Not(selectedPlugin) \/ Not(nav.ret)
          THEN (IF Len(entries) > 0 THEN ClickNavButton(nav.W, entries, entries[1])
                ELSE nav.W)
          ELSE nav.W :
             nav \in {IF Not(selectedPlugin) THEN [W |-> W, ret |-> "None"]
                      ELSE Navigate(W, entries, plugins, selectedPlugin, FALSE)}})

\* whether dock.statusBarButton() and dock.widget() return an object; BaseDock
\* returns None from both
HasStatusBarButton(c) == c \in {"DockD", "DockE", "DockF", "DockSetting"}
HasDockWidget(c) == c \in {"DockD", "DockE", "DockSetting"}

\* _MainWindow.addDock(dock): the button goes to the status bar; a dock widget
\* is hidden, observed and added to the window
MainWindowAddDock(W, dock) ==
    IF ~HasStatusBarButton(dock.cls) THEN W
    ELSE IF ~HasDockWidget(dock.cls)
    THEN [W EXCEPT !.dockBtns = Append(@, IdOf(dock))]
    ELSE [W EXCEPT !.dockBtns = Append(@, IdOf(dock)),
                   !.dockWidgets = Append(@, IdOf(dock)),
                   !.visible = @ \ {IdOf(dock)}]

\* for dock in docks: self._mainWindow.addDock(dock)
RECURSIVE AddDocks(_, _)
AddDocks(W, docks) ==
    IF docks = <<>> THEN W
    ELSE AddDocks(MainWindowAddDock(W, Head(docks)), Tail(docks))

RECURSIVE SetVisible(_, _, _)
RECURSIVE OnVisibilityChanged(_, _, _)
RECURSIVE SetCurrentDockWidget(_, _)

\* QDockWidget.setVisible(visible): when the visibility changes,
\* visibilityChanged is emitted and its observer runs inside the call
SetVisible(W, widget, visible) ==
    IF (widget \in W.visible) = visible THEN W
    ELSE OnVisibilityChanged(
             [W EXCEPT !.visible = IF visible THEN @ \cup {widget}
                                   ELSE @ \ {widget}],
             widget, visible)

OnVisibilityChanged_Ignore(W, widget, visible) == W

\* _onVisibilityChanged(visible), the observer addDock connects for `widget`
OnVisibilityChanged(W, widget, visible) ==
    IF ~visible /\ W.currentDock = widget THEN SetCurrentDockWidget(W, NoneId)
    ELSE W

\* _MainWindow.setCurrentDockWidget(dock)
SetCurrentDockWidget(W, dock) ==
    Only({[(IF dock # NoneId THEN SetVisible(hidden, dock, TRUE) ELSE hidden)
              EXCEPT !.currentDock = dock] :
             hidden \in {IF W.currentDock # NoneId
                         THEN SetVisible(W, W.currentDock, FALSE)
                         ELSE W}})

\* BaseApplication.run() up to the start of the event loop: the navigation
\* entries are rendered, the start-up selection is made and the docks are added
DoRun ==
    /\ ~navBar.shown
    /\ \E entries \in {RenderPlugins(navBar.entries,
                                     SortByPriority(DictValues(pluginRegistry)))} :
          /\ navBar' = [shown |-> TRUE, entries |-> entries]
          /\ mainWindow' = AddDocks(StartupSelection(StackAfter(mainWindow, entries),
                                                     entries, pluginRegistry,
                                                     storedPlugin),
                                    DictValues(dockRegistry))
    /\ appCall' = [op |-> "run", n |-> appCall.n + 1, arg |-> None, err |-> NoError,
                   pre |-> Before]
    /\ UNCHANGED <<manifests, enabledIds, moduleList, pluginRegistry, pluginAddedLog,
                   addLog, loaderRuns, loaded, ingested, activations, nextOid,
                   svcCall, connected, slotErrors, dockRegistry, settingRegistry,
                   routeLog, storedPlugin, regVars, workerVars, loaderVars, pwVars>>

\* the integrator runs app.run()
AppRun ==
    /\ appCall.n < MaxAppCalls
    /\ DoRun

AppNext ==
    \/ SvcLoad
    \/ AppAddPlugin
    \/ CallHandleRegistrable
    \/ ReadRegistrables
    \/ AppRun

SpecApp == AppInit /\ [][AppNext]_vars

----------------------------------------------------------------------------
(* The main window at work: an integrator adds Plugins and runs the
   application; afterwards Plugins navigate and the user clicks the dock
   buttons of the status bar and closes dock widgets. *)

\* the Plugins this integrator adds: two with a navigation entry and one that
\* offers Docks
WindowPlugins == {[cls |-> c, oid |-> 0] : c \in {"Nav30", "Nav10", "PanelsPlugin"}}

\* the ids navigate is called with: a Plugin with a navigation button, one
\* without, and an id no Plugin has
NavigateIds == {"n30", "panels", "zz"}

\* what the settings file holds under "application/selectedPlugin": nothing, the
\* id of a Plugin, or an id no Plugin has
StoredPlugins == {NoneId, "n30", "zz"}

WindowInit ==
    /\ AppCreated
    /\ manifests = <<>>
    /\ enabledIds = <<>>
    /\ storedPlugin \in StoredPlugins

\* what every call and event of the window leaves alone
WindowFrame ==
    UNCHANGED <<manifests, enabledIds, moduleList, pluginRegistry, pluginAddedLog,
                addLog, loaderRuns, loaded, ingested, activations, nextOid, svcCall,
                connected, slotErrors, dockRegistry, settingRegistry, routeLog,
                navBar, storedPlugin, regVars, workerVars, loaderVars, pwVars>>

WinAddPlugin ==
    /\ appCall.n < MaxWindowCalls
    /\ ~navBar.shown
    /\ \E plugin \in WindowPlugins : DoAddPlugin(plugin)

WinRun ==
    /\ appCall.n < MaxWindowCalls
    /\ DoRun

\* code of a Plugin calls app.navigate(pluginId, animate) while the event loop
\* runs
CallNavigate ==
    /\ appCall.n < MaxWindowCalls
    /\ navBar.shown
    /\ \E pluginId \in NavigateIds : \E animate \in BOOLEAN :
          \E r \in {Navigate(mainWindow, navBar.entries, pluginRegistry, pluginId,
                             animate)} :
              /\ mainWindow' = r.W
              /\ appCall' = [op |-> "navigate", n |-> appCall.n + 1,
                             arg |-> pluginId, err |-> NoError, pre |-> Before,
                             ret |-> r.ret]
    /\ WindowFrame

\* the timer of animateClick() fires: the button is clicked
AnimatedClick ==
    /\ mainWindow.pending # <<>>
    /\ mainWindow' = [ClickNavButton(mainWindow, navBar.entries,
                                     Head(mainWindow.pending))
                         EXCEPT !.pending = Tail(@)]
    /\ UNCHANGED appCall
    /\ WindowFrame

\* the user clicks the status-bar button of a dock; the observer addDock
\* connected, if there is one, runs setCurrentDockWidget(widget)
ClickDockButton ==
    /\ appCall.n < MaxWindowCalls
    /\ \E i \in DOMAIN mainWindow.dockBtns :
          LET dock == mainWindow.dockBtns[i]
          IN  /\ mainWindow' = IF InList(dock, mainWindow.dockWidgets)
                               THEN SetCurrentDockWidget(mainWindow, dock)
                               ELSE mainWindow
              /\ appCall' = [op |-> "dockClick", n |-> appCall.n + 1, arg |-> dock,
                             err |-> NoError, pre |-> Before]
    /\ WindowFrame

\* the user closes a visible dock widget: Qt hides it
CloseDock ==
    /\ appCall.n < MaxWindowCalls
    /\ \E dock \in mainWindow.visible :
          /\ mainWindow' = SetVisible(mainWindow, dock, FALSE)
          /\ appCall' = [op |-> "dockClose", n |-> appCall.n + 1, arg |-> dock,
                         err |-> NoError, pre |-> Before]
    /\ WindowFrame

WindowNext ==
    \/ WinAddPlugin
    \/ WinRun
    \/ CallNavigate
    \/ AnimatedClick
    \/ ClickDockButton
    \/ CloseDock

SpecWindow == WindowInit /\ [][WindowNext]_vars

----------------------------------------------------------------------------
(* The extension manager: ModuleListModel.setData toggles a Module, closing the
   dialog writes the enabled ids to the settings file.  The dialog's share of
   the state travels as a record D = [modules, persisted]. *)

\* the settings file holding the array a list was written as
StoredArray(list) == [size |-> Len(list), items |-> list]

\* EnabledExtensionsSetting.writeList(enabled_modules): beginWriteArray sets the
\* size, setValue overwrites the entries by index, later entries stay on file
WriteList(settings, enabled_modules) ==
    LET size == Len(enabled_modules)
        n == IF Len(settings.items) > size THEN Len(settings.items) ELSE size
    IN  [size |-> size,
         items |-> [i \in 1..n |-> IF i <= size THEN enabled_modules[i]
                                   ELSE settings.items[i]]]

\* EnabledExtensionsSetting.readList(): the first `size` entries
ReadList(settings) == [i \in 1..settings.size |-> settings.items[i]]

\* PluginService.enabledModules
EnabledModules(modules) == SelectSeq(modules, LAMBDA module : module.enabled)

SetData_Autosave(D, row, value) ==
    LET modules == [D.modules EXCEPT ![row].enabled = value]
        enabled == EnabledModules(modules)
    IN  [modules |-> modules, persisted |-> [i \in DOMAIN enabled |-> enabled[i].id]]

\* ModuleListModel.setData(index, value, CheckStateRole), index in column 0
SetData(D, row, value) == [D EXCEPT !.modules[row].enabled = value]

\* ExtensionManagerDialog.closeEvent(event)
CloseEvent(D) ==
    LET enabled == EnabledModules(D.modules)
        ids == [i \in DOMAIN enabled |-> enabled[i].id]
    IN  [D EXCEPT !.persisted = ReadList(WriteList(StoredArray(D.persisted), ids))]

DialogState == [modules |-> moduleList, persisted |-> enabledIds]

\* the user ticks or unticks the check box of a Module
Toggle ==
    /\ appCall.n < MaxAppCalls
    /\ \E row \in DOMAIN moduleList : \E value \in BOOLEAN :
          LET D == SetData(DialogState, row, value)
          IN  /\ moduleList' = D.modules
              /\ enabledIds' = D.persisted
              /\ appCall' = [op |-> "setData", n |-> appCall.n + 1,
                             arg |-> [row |-> row, value |-> value],
                             err |-> NoError, pre |-> Before]
    /\ UNCHANGED <<manifests, pluginRegistry, pluginAddedLog, addLog, loaderRuns,
                   loaded, ingested, activations, nextOid, svcCall, connected,
                   slotErrors, dockRegistry, settingRegistry, routeLog, navBar,
                   regVars, workerVars, loaderVars, winVars, pwVars>>

\* the user closes the extension manager
CloseManager ==
    /\ appCall.n < MaxAppCalls
    /\ LET D == CloseEvent(DialogState)
       IN  /\ moduleList' = D.modules
           /\ enabledIds' = D.persisted
           /\ appCall' = [op |-> "closeEvent", n |-> appCall.n + 1, arg |-> None,
                          err |-> NoError, pre |-> Before]
    /\ UNCHANGED <<manifests, pluginRegistry, pluginAddedLog, addLog, loaderRuns,
                   loaded, ingested, activations, nextOid, svcCall, connected,
                   slotErrors, dockRegistry, settingRegistry, routeLog, navBar,
                   regVars, workerVars, loaderVars, winVars, pwVars>>

ManagerNext == SvcLoad \/ Toggle \/ CloseManager

SpecManager == AppInit /\ [][ManagerNext]_vars

----------------------------------------------------------------------------
(* Claims about BaseRegistry, checked under SpecRegistry. *)

\* the entries a dict gains when the items are stored under their ids, in order
EntriesOf(items) == [i \in DOMAIN items |-> [key |-> IdOf(items[i]), val |-> items[i]]]

\* the deliveries of one notification per item, each to every observer in turn
DeliveriesOk(events, sig, items, n) ==
    /\ Len(events) = Len(items) * n
    /\ \A i \in DOMAIN items : \A j \in 1..n :
          LET e == events[(i - 1) * n + j]
          IN  e.sig = sig /\ e.obj = items[i] /\ e.obs = j

\* C1: the registry never holds two items with the same id, and an add of an
\* item whose id is already registered raises RegistrableAlreadyExistsError,
\* leaves the stored mapping exactly as it was and emits no registrableAdded.
C1_UniqueIds ==
    /\ \A i, j \in DOMAIN registry :
          IdOf(registry[i].val) = IdOf(registry[j].val) => i = j
    /\ \A i \in DOMAIN registry : registry[i].key = IdOf(registry[i].val)
    /\ (/\ lastCall.op = "add"
        /\ ~lastCall.arg.isList
        /\ DictGet(lastCall.pre, IdOf(lastCall.arg.items[1])) # None)
       => /\ lastCall.err = AlreadyExists
          /\ registry = lastCall.pre
          /\ lastCall.events = <<>>

\* an add of a second object with a registered id has just been refused
C1_Witness ==
    /\ lastCall.op = "add"
    /\ ~lastCall.arg.isList
    /\ DictGet(lastCall.pre, IdOf(lastCall.arg.items[1])) # None
    /\ DictGet(lastCall.pre, IdOf(lastCall.arg.items[1])) # lastCall.arg.items[1]
    /\ lastCall.err = AlreadyExists

\* C2: a successful add(item) stores the item and emits registrableAdded(item)
\* exactly once: when add has returned every observer has run once, and each
\* of them found the item in the registry under item.id.
C2_AddedAfterInsert ==
    (lastCall.op = "add" /\ ~lastCall.arg.isList /\ lastCall.err = NoError)
    => LET item == lastCall.arg.items[1]
       IN  /\ DictGet(registry, IdOf(item)) = item
           /\ DeliveriesOk(lastCall.events, "registrableAdded", <<item>>, NumObservers)
           /\ \A k \in DOMAIN lastCall.events : lastCall.events[k].stored = item

\* a single item has just been added to a registry that held another one
C2_Witness ==
    /\ lastCall.op = "add"
    /\ ~lastCall.arg.isList
    /\ lastCall.err = NoError
    /\ lastCall.pre # <<>>
    /\ Len(lastCall.events) = NumObservers

\* the position of the first item of the list whose id is taken, by the
\* registry as it was or by an earlier item of the list (Len + 1 if none is)
FirstClash(pre, items) ==
    LET Clash(k) == \/ DictGet(pre, IdOf(items[k])) # None
                    \/ \E j \in 1..(k - 1) : IdOf(items[j]) = IdOf(items[k])
    IN  IF \E k \in DOMAIN items : Clash(k)
        THEN CHOOSE k \in DOMAIN items : Clash(k) /\ \A j \in 1..(k - 1) : ~Clash(j)
        ELSE Len(items) + 1

\* C3: add(list) adds the items in list order; when the item at position k
\* fails with a duplicate id, the items before k stay registered, each with its
\* added notification emitted, item k and the later items are not added, and
\* the error reaches the caller (no rollback).
C3_ListAddNoRollback ==
    (lastCall.op = "add" /\ lastCall.arg.isList)
    => LET items == lastCall.arg.items
           k == FirstClash(lastCall.pre, items)
           done == SubSeq(items, 1, k - 1)
       IN  /\ registry = lastCall.pre \o EntriesOf(done)
           /\ DeliveriesOk(lastCall.events, "registrableAdded", done, NumObservers)
           /\ lastCall.err = IF k <= Len(items) THEN AlreadyExists ELSE NoError
           /\ \A j \in k..Len(items) :
                 DictGet(registry, IdOf(items[j])) = items[j]
                 => \/ DictGet(lastCall.pre, IdOf(items[j])) = items[j]
                    \/ \E i \in 1..(k - 1) : items[i] = items[j]

\* a list add failed at its second item, with a third item behind it
C3_Witness ==
    /\ lastCall.op = "add"
    /\ lastCall.arg.isList
    /\ Len(lastCall.arg.items) = 3
    /\ FirstClash(lastCall.pre, lastCall.arg.items) = 2
    /\ lastCall.err = AlreadyExists
    /\ Len(registry) = Len(lastCall.pre) + 1
    /\ IdOf(lastCall.arg.items[3]) # IdOf(lastCall.arg.items[1])
    /\ DictGet(registry, IdOf(lastCall.arg.items[3])) = None

\* C4: remove(item) raises RegistrableNotFoundError when nothing is registered
\* under item.id, changing and emitting nothing; otherwise it deletes the entry
\* of item.id and emits registrableRemoved(item) exactly once, when the entry
\* is already gone.
C4_Remove ==
    (lastCall.op = "remove" /\ ~lastCall.arg.isList)
    => LET item == lastCall.arg.items[1]
       IN  IF DictGet(lastCall.pre, IdOf(item)) = None
           THEN /\ lastCall.err = NotFound
                /\ registry = lastCall.pre
                /\ lastCall.events = <<>>
           ELSE /\ lastCall.err = NoError
                /\ registry = SelectSeq(lastCall.pre, LAMBDA e : e.key # IdOf(item))
                /\ DictGet(registry, IdOf(item)) = None
                /\ DeliveriesOk(lastCall.events, "registrableRemoved", <<item>>,
                                NumObservers)
                /\ \A k \in DOMAIN lastCall.events : lastCall.events[k].stored = None

\* an item has just been removed from a registry that keeps another one
C4_Witness ==
    /\ lastCall.op = "remove"
    /\ ~lastCall.arg.isList
    /\ lastCall.err = NoError
    /\ Len(lastCall.pre) = 2
    /\ Len(registry) = 1
    /\ Len(lastCall.events) = NumObservers

----------------------------------------------------------------------------
(* Claims about Worker, checked under SpecWorker. *)

\* s is an initial part of t
IsPrefix(s, t) == Len(s) <= Len(t) /\ SubSeq(t, 1, Len(s)) = s

\* C5: in every run of a Worker, whether fn returns or raises, the observers see
\* exactly one of result and error (result when fn returned, error when it
\* raised), never both, and after it exactly one finished.
C5_OneOutcomeThenFinished ==
    \A w \in Workers :
        /\ \/ IsPrefix(wlog[w], <<"result", "finished">>)
           \/ IsPrefix(wlog[w], <<"error", "finished">>)
        /\ wpc[w] = "done"
           => wlog[w] = IF wout[w] = "returned" THEN <<"result", "finished">>
                        ELSE <<"error", "finished">>
        /\ wpc[w] = "done" => wout[w] \in {"returned", "raised"}

\* all runs are over, one whose fn raised and one whose fn returned
C5_Witness ==
    /\ \A w \in Workers : wpc[w] = "done"
    /\ \E w \in Workers : wout[w] = "raised" /\ wlog[w] = <<"error", "finished">>
    /\ \E w \in Workers : wout[w] = "returned" /\ wlog[w] = <<"result", "finished">>

----------------------------------------------------------------------------
(* Claims about RegistrableLoader, checked under SpecLoader. *)

\* the code units below a path that the Loader loads
RECURSIVE UnitsOf(_)
UnitsOf(node) ==
    IF node.kind = "dir"
    THEN UNION {UnitsOf(node.entries[i]) : i \in DOMAIN node.entries}
    ELSE IF node.kind = "file" /\ IsValidModule(node.name) THEN {node} ELSE {}

\* how many of the objects are instances of exactly class c
CountOf(objs, c) == Cardinality({i \in DOMAIN objs : objs[i].cls = c})

\* C6: load returns exactly one instance for each top-level type of a loaded
\* code unit that is a proper subtype of the capability, and no instance of
\* the capability type itself, also when a unit binds the capability type.
C6_OneInstancePerType ==
    (loadOut.op = "load" /\ loadOut.err = NoError)
    => \A c \in Classes :
          CountOf(loadOut.objs, c) =
              IF IsSubclass(c, loadIn.class_) /\ c # loadIn.class_
              THEN Cardinality({u \in UnitsOf(loadIn.node) :
                                   \E i \in DOMAIN u.ns : u.ns[i] = c})
              ELSE 0

\* the part of C6 about the capability type: it is never instantiated
C6_NeverTheBase ==
    loadOut.op = "load"
    => \A i \in DOMAIN loadOut.objs :
          /\ loadOut.objs[i].cls # loadIn.class_
          /\ IsSubclass(loadOut.objs[i].cls, loadIn.class_)

----------------------------------------------------------------------------
(* Claims about PluginService, checked under SpecService. *)

\* the manifest entries of all repository files, in repository order and then
\* manifest order
RECURSIVE AllEntries(_)
AllEntries(files) ==
    IF files = <<>> THEN <<>> ELSE Head(files).entries \o AllEntries(Tail(files))

\* every entry of every repository file has its required keys
AllWellFormed(files) ==
    \A i \in DOMAIN files : \A j \in DOMAIN files[i].entries :
        WellFormed(files[i].entries[j])

\* the paths of the Modules whose id is in the list, in module-list order
RECURSIVE PathsOfEnabled(_, _)
PathsOfEnabled(modules, ids) ==
    IF modules = <<>> THEN <<>>
    ELSE (IF InList(Head(modules).id, ids) THEN <<Head(modules).path>> ELSE <<>>)
             \o PathsOfEnabled(Tail(modules), ids)

\* C7: after load(repositoryFiles, enabledModuleIds) returns normally on a
\* freshly created service, a Module is enabled exactly when its id is in
\* enabledModuleIds, the Loader was run against the paths of exactly those
\* Modules, and the Plugin Registry holds every Plugin the Loader returned.
C7_LoadActivatesEnabled ==
    (svcCall.op = "load" /\ svcCall.n = 1 /\ svcCall.err = NoError)
    => /\ \A i \in DOMAIN moduleList :
             moduleList[i].enabled <=> InList(moduleList[i].id, enabledIds)
       /\ loaderRuns = PathsOfEnabled(moduleList, enabledIds)
       /\ \A k \in DOMAIN loaded :
             DictGet(pluginRegistry, IdOf(loaded[k])) = loaded[k]

\* a first load returned normally, with a Module left disabled, a Module
\* enabled and two Plugins loaded
C7_Witness ==
    /\ svcCall.op = "load" /\ svcCall.n = 1 /\ svcCall.err = NoError
    /\ \E i \in DOMAIN moduleList : ~moduleList[i].enabled
    /\ \E i \in DOMAIN moduleList : moduleList[i].enabled
    /\ Len(loaded) >= 2
    /\ Len(pluginRegistry) = Len(loaded)

\* C8: ingesting the repositories (whose manifests parse) appends one Module
\* per manifest entry, in repository order and then manifest order, each
\* disabled, also when its id is that of a Module already in the list: the list
\* is as long as the number of entries ingested so far.
C8_IngestAppendsAll ==
    LET entries == AllEntries(manifests)
        before == Len(ingested) - Len(entries)
    IN  /\ \A i, j \in DOMAIN moduleList :
              moduleList[i].mid = moduleList[j].mid => i = j
        /\ AllWellFormed(manifests)
           => /\ Len(moduleList) = svcCall.loads * Len(entries)
              /\ svcCall.op = "load"
                 => /\ Len(ingested) = Len(moduleList)
                    /\ \A i \in DOMAIN ingested : ingested[i].mid = moduleList[i].mid
                    /\ \A j \in DOMAIN entries :
                          /\ ingested[before + j].id = entries[j].md.id
                          /\ ingested[before + j].path
                                = <<"ext">> \o entries[j].md.relativePath
                          /\ ~ingested[before + j].enabled

\* a second load has appended entries of two repository files whose ids are
\* those of Modules already in the list
C8_Witness ==
    /\ svcCall.op = "load"
    /\ svcCall.loads = 2
    /\ AllWellFormed(manifests)
    /\ Len(manifests[1].entries) >= 1
    /\ Len(manifests[2].entries) >= 1
    /\ \E i, j \in DOMAIN moduleList : i # j /\ moduleList[i].id = moduleList[j].id
    /\ Len(moduleList) = 2 * Len(AllEntries(manifests))

\* the Plugin classes defined in the code units below a path
PluginClassesUnder(path) ==
    {c \in Classes :
        /\ IsSubclass(c, "BasePlugin") /\ c # "BasePlugin"
        /\ \E u \in UnitsOf(Resolve(FsRoot, path)) : \E i \in DOMAIN u.ns : u.ns[i] = c}

\* C9: load never instantiates or registers a Plugin defined in the directory
\* of a Module whose id is not in enabledModuleIds, whatever the layout of the
\* module directories.
C9_OnlyEnabledModulesLoad ==
    \A i \in DOMAIN moduleList :
        ~InList(moduleList[i].id, enabledIds)
        => /\ \A k \in DOMAIN loaded :
                 loaded[k].cls \notin PluginClassesUnder(moduleList[i].path)
           /\ \A k \in DOMAIN pluginRegistry :
                 pluginRegistry[k].val.cls \notin PluginClassesUnder(moduleList[i].path)

\* the Plugins whose add succeeded, in the order of the calls
RECURSIVE AddedOk(_)
AddedOk(adds) ==
    IF adds = <<>> THEN <<>>
    ELSE (IF Head(adds).err = NoError THEN <<Head(adds).plugin>> ELSE <<>>)
             \o AddedOk(Tail(adds))

\* C10: PluginService emits pluginAdded(p) exactly once for every Plugin p
\* added to its registry, carrying that Plugin, and none for an add that fails
\* with a duplicate id.
C10_PluginAddedOncePerAdd == pluginAddedLog = AddedOk(addLog)

\* two adds have succeeded and one has failed with a duplicate id
C10_Witness ==
    /\ \E k \in DOMAIN addLog : addLog[k].err = AlreadyExists
    /\ Len(pluginAddedLog) >= 2
    /\ Len(pluginRegistry) = Len(pluginAddedLog)

----------------------------------------------------------------------------
(* Claims about the application shell, checked under SpecApp. *)

\* the object the registry holds under the id of r is r itself
Holds(reg, r) == DictGet(reg, IdOf(r)) = r

\* C11: when pluginService.addPlugin(p) has returned normally, every Dock in
\* p.registrables is in the Dock Registry and every Setting in p.registrables
\* is in the Setting Registry, after any sequence of plugin additions.
C11_RoutedOnReturn ==
    \A k \in DOMAIN addLog :
        addLog[k].ret = NoError
        => LET objs == Registrables(addLog[k].plugin, nextOid).objs
           IN  \A i \in DOMAIN objs :
                  /\ IsSubclass(objs[i].cls, "BaseDock") => Holds(dockRegistry, objs[i])
                  /\ IsSubclass(objs[i].cls, "BaseSetting")
                        => Holds(settingRegistry, objs[i])

\* the part of C11 about the order of events: onPluginAdded has run for every
\* pluginAdded emission by the time the addition is over, and every Registrable
\* it routed without an error is in its registry
C11_RoutingIsInline ==
    /\ Len(routeLog) = Len(pluginAddedLog)
    /\ \A k \in DOMAIN routeLog :
          /\ routeLog[k].plugin = pluginAddedLog[k]
          /\ routeLog[k].err = NoError
             => \A i \in DOMAIN routeLog[k].objs :
                   LET r == routeLog[k].objs[i]
                   IN  /\ IsSubclass(r.cls, "BaseDock") => Holds(dockRegistry, r)
                       /\ IsSubclass(r.cls, "BaseSetting") => Holds(settingRegistry, r)

\* the last call on the shell was op, and no call on the PluginService has
\* been made since
JustCalled(op) == appCall.op = op /\ appCall.pre.calls = svcCall.n

\* C12: handleRegistrable forwards a Registrable of a BaseDock subtype to the
\* Dock Registry (added under its id, or refused when the id is taken) and one
\* of a BaseSetting subtype to the Setting Registry; for a Registrable of
\* neither capability it raises no error and leaves the Dock, Setting and
\* Plugin registries as they were.
C12_HandleRegistrable ==
    JustCalled("handleRegistrable")
    => LET r == appCall.arg
           pre == appCall.pre
           isDock == IsSubclass(r.cls, "BaseDock")
           isSetting == IsSubclass(r.cls, "BaseSetting")
           Forwarded(before, after) ==
               IF DictGet(before, IdOf(r)) = None
               THEN after = Append(before, [key |-> IdOf(r), val |-> r])
                    /\ appCall.err = NoError
               ELSE after = before /\ appCall.err = AlreadyExists
       IN  /\ pluginRegistry = pre.plugins
           /\ isDock => Forwarded(pre.docks, dockRegistry)
           /\ isSetting => Forwarded(pre.settings, settingRegistry)
           /\ ~isDock => dockRegistry = pre.docks
           /\ ~isSetting => settingRegistry = pre.settings
           /\ (~isDock /\ ~isSetting) => appCall.err = NoError

\* handleRegistrable has just returned for an object that is neither a Dock nor
\* a Setting, with Plugins, Docks and Settings registered
C12_Witness ==
    /\ JustCalled("handleRegistrable")
    /\ appCall.arg.cls = "Tool"
    /\ appCall.err = NoError
    /\ pluginRegistry # <<>>
    /\ dockRegistry # <<>>
    /\ Len(settingRegistry) >= 2

\* the position of x in a sequence that holds it
IndexIn(seq, x) == CHOOSE i \in DOMAIN seq : seq[i] = x

\* C13: BaseApplication.run renders the navigation entries in ascending Plugin
\* priority, Plugins of equal priority in the order in which they were added
\* to the Plugin Registry; the entries are the registered Plugins that have a
\* page and a button.  Priorities [30, 10, 20] are rendered as [10, 20, 30].
C13_NavigationOrder ==
    JustCalled("run")
    => LET plugins == DictValues(pluginRegistry)
           nav == navBar.entries
       IN  /\ \A i, j \in DOMAIN nav :
                 i < j => \/ Priority(nav[i].cls) < Priority(nav[j].cls)
                          \/ /\ Priority(nav[i].cls) = Priority(nav[j].cls)
                             /\ IndexIn(plugins, nav[i]) < IndexIn(plugins, nav[j])
           /\ {nav[i] : i \in DOMAIN nav}
                 = {plugins[k] : k \in {k \in DOMAIN plugins :
                                           /\ HasWidget(plugins[k].cls)
                                           /\ HasNavBarBtn(plugins[k].cls)}}

\* run has rendered Plugins added with priorities 30, 10, 20 and, after them,
\* a second Plugin of priority 10
C13_Witness ==
    /\ JustCalled("run")
    /\ [k \in DOMAIN pluginRegistry |-> Priority(pluginRegistry[k].val.cls)]
          = <<30, 10, 20, 10>>
    /\ [i \in DOMAIN navBar.entries |-> navBar.entries[i].cls]
          = <<"Nav10", "DemoPlugin", "Nav20", "Nav30">>

----------------------------------------------------------------------------
(* Claims about failures of PluginService.load, checked under SpecService. *)

\* the position of the first repository file that holds a malformed entry
FirstMalformed(files) ==
    CHOOSE k \in DOMAIN files :
        /\ ~AllWellFormed(<<files[k]>>)
        /\ \A i \in 1..(k - 1) : AllWellFormed(<<files[i]>>)

\* C14: when a manifest holds a malformed entry (a required field missing),
\* loadFromFile raises and load adds no Module from that manifest, none for its
\* well-formed entries either, wherever the malformed entry stands: the module
\* list gains the entries of the manifests before it and nothing else, and no
\* Module is activated.
C14_MalformedManifestAddsNothing ==
    (svcCall.op = "load" /\ ~AllWellFormed(manifests))
    => LET k == FirstMalformed(manifests)
           kept == AllEntries(SubSeq(manifests, 1, k - 1))
       IN  /\ svcCall.err = ManifestError
           /\ Len(moduleList) = svcCall.pre + Len(kept)
           /\ \A j \in DOMAIN kept :
                 /\ moduleList[svcCall.pre + j].id = kept[j].md.id
                 /\ moduleList[svcCall.pre + j].path
                       = <<"ext">> \o kept[j].md.relativePath
           /\ Len(activations) = svcCall.acts

\* a first load has failed on a second manifest whose malformed entry stands
\* behind a well-formed one; the Module of the first manifest was added
C14_Witness ==
    /\ svcCall.op = "load"
    /\ svcCall.loads = 1
    /\ svcCall.err = ManifestError
    /\ Len(manifests[1].entries) = 1
    /\ WellFormed(manifests[1].entries[1])
    /\ Len(manifests[2].entries) = 2
    /\ WellFormed(manifests[2].entries[1])
    /\ ~WellFormed(manifests[2].entries[2])
    /\ Len(moduleList) = 1

\* the errors the Loader raises
LoaderErrors == {FileNotFound, LoadFailure}

\* the identities of the Modules among the first n whose id is in the list, in
\* module-list order
RECURSIVE MidsToActivate(_, _, _)
MidsToActivate(modules, n, ids) ==
    IF n = 0 THEN <<>>
    ELSE MidsToActivate(modules, n - 1, ids)
             \o (IF InList(modules[n].id, ids) THEN <<modules[n].mid>> ELSE <<>>)

\* C15: when the Loader raises while load activates a Module, that error ends
\* the call: the failing activation is the last one, the Modules behind the
\* failing one keep their enabled flag, none of them is activated (loaded, or
\* registering a Plugin) and no Module is added to the list, while the Plugins
\* registered by the earlier activations of the call stay registered.
C15_LoaderErrorAbortsLoad ==
    \A k \in (svcCall.acts + 1)..Len(activations) :
        (svcCall.op = "load" /\ activations[k].err \in LoaderErrors)
        => LET f == CHOOSE i \in DOMAIN moduleList :
                        moduleList[i].mid = activations[k].mid
           IN  /\ svcCall.err = activations[k].err
               /\ k = Len(activations)
               /\ activations[k].objs = <<>>
               /\ [j \in 1..(k - svcCall.acts) |-> activations[svcCall.acts + j].mid]
                     = MidsToActivate(moduleList, f, enabledIds)
               /\ Len(moduleList) = Len(ingested)
               /\ \A j \in (f + 1)..Len(moduleList) :
                     moduleList[j].enabled = ingested[j].enabled
               /\ \A j \in (svcCall.acts + 1)..(k - 1) :
                     /\ activations[j].err = NoError
                     /\ \A i \in DOMAIN activations[j].objs :
                           Holds(pluginRegistry, activations[j].objs[i])

\* a first load has failed in the Loader on its second Module: the first
\* Module has registered Plugins, the third, whose id is enabled, is untouched
C15_Witness ==
    /\ svcCall.op = "load"
    /\ svcCall.loads = 1
    /\ svcCall.err = LoadFailure
    /\ Len(moduleList) = 3
    /\ Len(activations) = 2
    /\ activations[1].objs # <<>>
    /\ activations[2].mid = moduleList[2].mid
    /\ InList(moduleList[3].id, enabledIds)
    /\ ~moduleList[3].enabled
    /\ Len(pluginRegistry) = Len(activations[1].objs)

\* C17: for manifests written from lists of ModuleMetadata, loadFromFile and
\* the Module constructor give one Module per entry, in order, whose id,
\* displayName and description are the entry's and whose path is the absolute
\* directory that holds the manifest joined with the entry's relativePath.
C17_ManifestRoundTrip ==
    (svcCall.op = "load" /\ AllWellFormed(manifests))
    => /\ Len(ingested) = svcCall.pre + Len(AllEntries(manifests))
       /\ \A f \in DOMAIN manifests : \A j \in DOMAIN manifests[f].entries :
             LET n == svcCall.pre + Len(AllEntries(SubSeq(manifests, 1, f - 1))) + j
                 md == manifests[f].entries[j].md
             IN  /\ ingested[n].id = md.id
                 /\ ingested[n].displayName = md.displayName
                 /\ ingested[n].description = md.description
                 /\ ingested[n].path = <<"ext">> \o md.relativePath

\* a load has read two manifests, one named relative to the working directory
\* and one absolutely, with an entry that has a description and one without
C17_Witness ==
    /\ svcCall.op = "load"
    /\ AllWellFormed(manifests)
    /\ ~manifests[1].path.absolute /\ manifests[1].entries # <<>>
    /\ manifests[2].path.absolute /\ manifests[2].entries # <<>>
    /\ \E n \in DOMAIN ingested : ingested[n].description = "the first"
    /\ \E n \in DOMAIN ingested : ingested[n].description = NoneStr
    /\ \E n \in DOMAIN ingested : ingested[n].path = <<"ext", "m1", "sub">>

----------------------------------------------------------------------------
(* Claims about a failed activation and the registries, checked under SpecApp. *)

\* C16: if activating a Module during load fails with an error, the Plugin,
\* Dock and Setting registries hold no Plugin that the Loader created in that
\* activation and no Dock or Setting routed for such a Plugin.
C16_FailedModuleContributesNothing ==
    \A k \in DOMAIN activations :
        activations[k].err # NoError
        => \A i \in DOMAIN activations[k].objs :
              LET plugin == activations[k].objs[i]
              IN  /\ ~Holds(pluginRegistry, plugin)
                  /\ \A j \in DOMAIN routeLog :
                        routeLog[j].plugin = plugin
                        => \A n \in DOMAIN routeLog[j].objs :
                              /\ ~Holds(dockRegistry, routeLog[j].objs[n])
                              /\ ~Holds(settingRegistry, routeLog[j].objs[n])

\* the part of C16 about an activation that fails in the Loader: it hands no
\* Plugin to the service at all
C16_LoaderErrorLoadsNothing ==
    \A k \in DOMAIN activations :
        activations[k].err \in LoaderErrors => activations[k].objs = <<>>

\* C20: reading plugin.registrables twice returns lists of equal length whose
\* elements at each position are the same object, and the objects the router
\* registered on pluginAdded are the ones a later read of the accessor returns.
C20_RegistrablesStable ==
    /\ appCall.op = "registrables"
       => /\ Len(appCall.first) = Len(appCall.second)
          /\ \A i \in DOMAIN appCall.first : appCall.first[i] = appCall.second[i]
    /\ \A k \in DOMAIN routeLog :
          routeLog[k].objs = Registrables(routeLog[k].plugin, nextOid).objs

\* the part of C20 that holds: two reads return lists of the same length and of
\* the same classes, position by position
C20_SameShape ==
    appCall.op = "registrables"
    => /\ Len(appCall.first) = Len(appCall.second)
       /\ \A i \in DOMAIN appCall.first : appCall.first[i].cls = appCall.second[i].cls

----------------------------------------------------------------------------
(* Claims about the extension manager, checked under SpecManager. *)

\* the ids of the enabled Modules, in module-list order
RECURSIVE IdsOfEnabled(_)
IdsOfEnabled(modules) ==
    IF modules = <<>> THEN <<>>
    ELSE (IF Head(modules).enabled THEN <<Head(modules).id>> ELSE <<>>)
             \o IdsOfEnabled(Tail(modules))

\* what setData and closeEvent leave behind
C18_Effects ==
    /\ JustCalled("setData")
       => /\ moduleList = [appCall.pre.modules EXCEPT
                               ![appCall.arg.row].enabled = appCall.arg.value]
          /\ enabledIds = appCall.pre.persisted
          /\ pluginRegistry = appCall.pre.plugins
    /\ JustCalled("closeEvent")
       => /\ enabledIds = IdsOfEnabled(appCall.pre.modules)
          /\ moduleList = appCall.pre.modules

\* C18: toggling a Module in the module list changes only its enabled flag,
\* the persisted list of enabled ids and the Plugin Registry stay as they
\* were; the persisted list changes only when the extension manager is closed,
\* and then becomes the ids of the Modules enabled at that moment, in
\* module-list order.
C18_PersistedOnlyOnClose ==
    /\ []C18_Effects
    /\ [][enabledIds' # enabledIds
            => appCall'.op = "closeEvent" /\ appCall'.n = appCall.n + 1]_vars

\* the manager has just been closed after a Module that the persisted list
\* names was unticked: the list on file has become shorter
C18_Witness ==
    /\ JustCalled("closeEvent")
    /\ enabledIds # <<>>
    /\ Len(enabledIds) < Len(appCall.pre.persisted)
    /\ \E i \in DOMAIN moduleList :
          ~moduleList[i].enabled /\ InList(moduleList[i].id, appCall.pre.persisted)
    /\ \E i \in DOMAIN moduleList : moduleList[i].enabled

----------------------------------------------------------------------------
(* PasswordGenerator.generatePassword(length, charSet).  The three alphabets are
   stood for by a few of their characters; every secrets.choice and the shuffle
   are choices the action makes. *)

\* PasswordGenerator.CharacterSet
LETTERS == 1
DIGITS == 2
SPECIALS == 4

\* string.ascii_letters, string.digits, string.punctuation
Letters == <<"a", "Z">>
Digits == <<"7">>
Specials == <<"#">>

\* isSet(value, charSet): value & charSet != 0, for a charSet of one bit
IsSet(value, charSet) == (value \div charSet) % 2 = 1

\* allCharacters after the three if statements
AllCharacters(charSet) ==
    (IF IsSet(charSet, LETTERS) THEN Letters ELSE <<>>)
        \o (IF IsSet(charSet, DIGITS) THEN Digits ELSE <<>>)
        \o (IF IsSet(charSet, SPECIALS) THEN Specials ELSE <<>>)

\* password after the three if statements, for the letter and the digit that
\* secrets.choice gave: the choice made from the specials is not appended
FirstCharacters(charSet, letter, digit) ==
    (IF IsSet(charSet, LETTERS) THEN <<letter>> ELSE <<>>)
        \o (IF IsSet(charSet, DIGITS) THEN <<digit>> ELSE <<>>)

\* len(range(length - 3))
FillCount(length) == IF length > 3 THEN length - 3 ELSE 0

\* secrets.choice(seq) of an empty sequence
EmptyChoice == "IndexError"

\* the arguments of the call
PasswordInit ==
    /\ RegIdle
    /\ NoWorkers
    /\ NoLoad
    /\ NoService
    /\ pwCall \in [op : {"call"}, length : 0..MaxPwLength, charSet : 0..7]

\* generatePassword runs to its end
GeneratePassword ==
    /\ pwCall.op = "call"
    /\ LET all == AllCharacters(pwCall.charSet)
           count == FillCount(pwCall.length)
       IN  IF count > 0 /\ all = <<>>
           THEN pwCall' = [op |-> "done", length |-> pwCall.length,
                          charSet |-> pwCall.charSet, password |-> <<>>,
                          err |-> EmptyChoice]
           ELSE \E l \in DOMAIN Letters, d \in DOMAIN Digits :
                \E fill \in [1..count -> DOMAIN all] :
                   LET password == FirstCharacters(pwCall.charSet, Letters[l],
                                                   Digits[d])
                                       \o [i \in 1..count |-> all[fill[i]]]
                   IN  \E shuffle \in Permutations(DOMAIN password) :
                          pwCall' = [op |-> "done", length |-> pwCall.length,
                                     charSet |-> pwCall.charSet,
                                     password |-> [i \in DOMAIN password |->
                                                      password[shuffle[i]]],
                                     err |-> NoError]
    /\ UNCHANGED <<regVars, workerVars, loaderVars, manifests, enabledIds, moduleList,
                   pluginRegistry, pluginAddedLog, addLog, loaderRuns, loaded,
                   ingested, activations, nextOid, svcCall, appVars, winVars>>

\* the caller asks for another password
PasswordAgain ==
    /\ pwCall.op = "done"
    /\ \E length \in 0..MaxPwLength, charSet \in 0..7 :
          pwCall' = [op |-> "call", length |-> length, charSet |-> charSet]
    /\ UNCHANGED <<regVars, workerVars, loaderVars, manifests, enabledIds, moduleList,
                   pluginRegistry, pluginAddedLog, addLog, loaderRuns, loaded,
                   ingested, activations, nextOid, svcCall, appVars, winVars>>

PasswordNext == GeneratePassword \/ PasswordAgain

SpecPassword == PasswordInit /\ [][PasswordNext]_vars

----------------------------------------------------------------------------
(* Claims about the password generator, checked under SpecPassword. *)

\* whether a character of the alphabet is in the password
Includes(password, alphabet) ==
    \E i \in DOMAIN password : \E j \in DOMAIN alphabet : password[i] = alphabet[j]

\* C22: the password generatePassword returns holds at least one character of
\* each character set selected in charSet: letters, digits, specials.
C22_EachSelectedSetIncluded ==
    (pwCall.op = "done" /\ pwCall.err = NoError)
    => /\ IsSet(pwCall.charSet, LETTERS) => Includes(pwCall.password, Letters)
       /\ IsSet(pwCall.charSet, DIGITS) => Includes(pwCall.password, Digits)
       /\ IsSet(pwCall.charSet, SPECIALS) => Includes(pwCall.password, Specials)

\* the part of C22 that holds: a letter and a digit are included when selected
C22_LettersAndDigitsIncluded ==
    (pwCall.op = "done" /\ pwCall.err = NoError)
    => /\ IsSet(pwCall.charSet, LETTERS) => Includes(pwCall.password, Letters)
       /\ IsSet(pwCall.charSet, DIGITS) => Includes(pwCall.password, Digits)

----------------------------------------------------------------------------
(* Claims about what PluginService.load leaves behind, checked under
   SpecService. *)

\* C23: when loading a repository manifest fails during PluginService.load,
\* the call enables no Module and registers no Plugin, not even for Modules of
\* repositories ingested before the failing one whose ids are in
\* enabledModuleIds: the Plugin Registry is the one the call found, the Loader
\* has not run, the Modules the call found keep their flags, and the Modules
\* the call added are in the module list, disabled.
C23_ManifestFailureActivatesNothing ==
    (svcCall.op = "load" /\ svcCall.err = ManifestError)
    => /\ pluginRegistry = svcCall.was.reg
       /\ Len(loaderRuns) = svcCall.was.runs
       /\ Len(activations) = svcCall.acts
       /\ Len(moduleList) >= Len(svcCall.was.modules)
       /\ SubSeq(moduleList, 1, Len(svcCall.was.modules)) = svcCall.was.modules
       /\ \A i \in (Len(svcCall.was.modules) + 1)..Len(moduleList) :
             ~moduleList[i].enabled

\* a load has failed on its second manifest; the first manifest's Module, whose
\* id is enabled and whose directory holds Plugins, is in the list, disabled
C23_Witness ==
    /\ svcCall.op = "load"
    /\ svcCall.err = ManifestError
    /\ Len(moduleList) > Len(svcCall.was.modules)
    /\ \E i \in (Len(svcCall.was.modules) + 1)..Len(moduleList) :
          /\ InList(moduleList[i].id, enabledIds)
          /\ PluginClassesUnder(moduleList[i].path) # {}
          /\ ~moduleList[i].enabled

\* whether addPluginsFromModule was called for the Module, and whether the
\* Loader raised in one of those calls
Activated(module) == \E k \in DOMAIN activations : activations[k].mid = module.mid
FailedToLoad(module) ==
    \E k \in DOMAIN activations :
        activations[k].mid = module.mid /\ activations[k].err \in LoaderErrors

\* C26 as stated: PluginService marks a Module enabled only if the Loader ran
\* successfully for it; when RegistrableLoader.load raises for a Module, its
\* enabled flag is still false afterwards.
C26_EnabledOnlyAfterLoaderSuccess ==
    \A i \in DOMAIN moduleList : FailedToLoad(moduleList[i]) => ~moduleList[i].enabled

\* C26: PluginService marks a Module enabled before it runs the Loader for it:
\* a Module is enabled exactly if addPluginsFromModule was called for it,
\* whether RegistrableLoader.load returned or raised, so a Module that failed
\* to load has its enabled flag set afterwards.
C26_EnabledBeforeLoader ==
    \A i \in DOMAIN moduleList : moduleList[i].enabled <=> Activated(moduleList[i])

\* the Loader has raised for a Module, and the Module is enabled
C26_Witness ==
    \E i \in DOMAIN moduleList :
        FailedToLoad(moduleList[i]) /\ moduleList[i].enabled

\* C27: for every sequence of PluginService.load calls on one service and every
\* manifest content, the Loader is run at most once per module directory, no
\* plugin class is instantiated twice, and no add of an already registered id
\* is attempted.
C27_LoaderRunsOncePerDirectory ==
    /\ \A i, j \in DOMAIN loaderRuns : loaderRuns[i] = loaderRuns[j] => i = j
    /\ \A i, j \in DOMAIN loaded : loaded[i].cls = loaded[j].cls => i = j
    /\ \A i \in DOMAIN addLog : addLog[i].err = NoError

----------------------------------------------------------------------------
(* Claims about BaseRegistry.remove, checked under SpecRegistry. *)

\* C24: each registrableRemoved(x) carries an object x that an earlier
\* registrableAdded(x) announced and that was not removed since, that is, an
\* object the Registry held when remove was called; and remove called with an
\* object that only shares its id with the registered one does not remove the
\* registered one.
C24_RemovedWasRegistered ==
    lastCall.op = "remove"
    => /\ \A k \in DOMAIN lastCall.events :
             Holds(lastCall.pre, lastCall.events[k].obj)
       /\ (/\ ~lastCall.arg.isList
           /\ DictGet(lastCall.pre, IdOf(lastCall.arg.items[1]))
                  \notin {None, lastCall.arg.items[1]})
          => registry = lastCall.pre

\* the part of C24 that holds: the id of the object a registrableRemoved
\* carries was registered when remove was called
C24_RemovedIdWasRegistered ==
    lastCall.op = "remove"
    => \A k \in DOMAIN lastCall.events :
          DictGet(lastCall.pre, IdOf(lastCall.events[k].obj)) # None

----------------------------------------------------------------------------
(* Claims about the main window, checked under SpecWindow. *)

\* the Plugin registered under the id when the call started, when it has a
\* navigation button
Navigable(plugins, pluginId) ==
    /\ DictGet(plugins, pluginId) # None
    /\ HasNavBarBtn(DictGet(plugins, pluginId).cls)

\* C21: navigate(pluginId) returns True when a Plugin with that id is
\* registered and has a navigation button (which gets selected), and False
\* otherwise.
C21_NavigateReturnsSuccess ==
    appCall.op = "navigate"
    => appCall.ret = IF Navigable(appCall.pre.plugins, appCall.arg)
                     THEN "True" ELSE "False"

\* the part of C21 that holds: navigate makes the Plugin the selected one
\* exactly when it is registered and has a navigation button
C21_NavigateSelects ==
    appCall.op = "navigate"
    => mainWindow.selected = IF Navigable(appCall.pre.plugins, appCall.arg)
                             THEN appCall.arg
                             ELSE appCall.pre.window.selected

\* C25: after run(), when the stored "application/selectedPlugin" id names a
\* registered Plugin with a navigation button, that Plugin is the checked
\* navigation entry; otherwise the first navigation entry is.
C25_StoredSelectionWins ==
    appCall.op = "run"
    => IF Navigable(pluginRegistry, storedPlugin)
       THEN mainWindow.checked = storedPlugin
       ELSE navBar.entries # <<>> => mainWindow.checked = IdOf(navBar.entries[1])

\* the part of C25 that holds: after run() the first navigation entry is the
\* checked one, whatever is stored
C25_FirstEntryChecked ==
    (appCall.op = "run" /\ navBar.entries # <<>>)
    => mainWindow.checked = IdOf(navBar.entries[1])

\* C28: no object is held by both the Dock Registry and the Setting Registry.
C28_AtMostOneRegistry ==
    \A i \in DOMAIN dockRegistry : \A j \in DOMAIN settingRegistry :
        dockRegistry[i].val # settingRegistry[j].val

\* C29: once a dock button click or a dock close event has been handled, at
\* most one dock widget is visible, and _currentDock is that widget, or None
\* when no dock widget is visible.
C29_OneVisibleDock ==
    /\ Cardinality(mainWindow.visible) <= 1
    /\ mainWindow.visible = {} => mainWindow.currentDock = NoneId
    /\ \A widget \in mainWindow.visible : mainWindow.currentDock = widget

\* the button of a dock has just been clicked while another dock was the
\* current, visible one: the observer of the dock that was hidden ran inside
\* setCurrentDockWidget
C29_Witness ==
    /\ appCall.op = "dockClick"
    /\ appCall.pre.window.currentDock \notin {NoneId, appCall.arg}
    /\ appCall.pre.window.visible = {appCall.pre.window.currentDock}
    /\ mainWindow.currentDock = appCall.arg
    /\ mainWindow.visible = {appCall.arg}
    /\ Len(mainWindow.dockWidgets) >= 3

====
